---- MODULE Spec2Model ----
(***************************************************************************)
(* A model of HashMouth's mix node (routing/mixnode.go) and chunk          *)
(* assembler (message/chunk.go).                                           *)
(*                                                                         *)
(* Time is discrete; one time unit stands for 50 ms.                       *)
(***************************************************************************)
EXTENDS Integers, Sequences, FiniteSets, TLC

(***************************************************************************)
(* Bounds of the model.                                                    *)
(***************************************************************************)
\* NewMixNode(id, maxQueueSize, batchSize, minDelay, maxDelay): the configuration checked.
maxQueueSize == 3
batchSize == 2
minDelay == 1
DelaySpan == 3
\* AddPacket calls per run (accepted or rejected).
MaxPackets == 4
\* Scheduling slack granted on top of Dmax + T, in time units.
Slack == 1
\* Chunk.Total and Chunk.Seq of the chunks fed to the assembler.
MaxTotal == 3
\* Chunks the assembler holds at a time in ChunkSpec.
MaxStored == 2
\* Length of the data split, and the regular chunk sizes.
MaxDataLen == 3
MaxChunkSize == 2
\* Go's largest int, scaled down.
MaxInt == 7
\* The time after which the specification wants a partial message purged.
TTL == 2
\* The longest node list and the largest hop count a PathBuilder is made with.
MaxNodes == 3
MaxHops == 3
\* The largest hop count BuildRelayPath is called with.
MaxRelayHops == 3
\* The longest path a relay message carries.
MaxPathLen == 2
MaxLayers == 2
MaxPlainLen == 1
SecLimit == 8
DurLimit == 3
MaxNow == 2
MaxSteps == 3
\* Start calls per MixNode.
MaxStarts == 2

maxDelay == minDelay + DelaySpan

\* The batch ticker's period: 100 ms = 2 time units of 50 ms.
TickPeriod == 2

\* Ages saturate one unit above the largest latency any claim speaks of.
AgeCap == maxDelay + TickPeriod + Slack + 1

Packets == 1..MaxPackets
NoPacket == 0

(***************************************************************************)
(* Helpers on sequences.                                                   *)
(***************************************************************************)
DupFree(s) == \A i, j \in 1..Len(s) : i # j => s[i] # s[j]

Range(s) == {s[i] : i \in 1..Len(s)}

Occurrences(s, x) == Cardinality({i \in 1..Len(s) : s[i] = x})

Min(a, b) == IF a < b THEN a ELSE b

Swap(s, i, j) == [s EXCEPT ![i] = s[j], ![j] = s[i]]

RECURSIVE Perms(_)
Perms(S) ==
    IF S = {} THEN {<<>>}
    ELSE UNION {{<<x>> \o t : t \in Perms(S \ {x})} : x \in S}

VARIABLES
    started,        \* Start has spawned processLoop and batchLoop
    stopped,        \* stopCh is closed
    packetQueue,    \* mn.packetQueue
    processingCh,   \* mn.processingCh, capacity maxQueueSize
    outputCh,       \* mn.outputCh, capacity maxQueueSize
    batchPC,        \* batchLoop: "idle" | "select" | "send" | "done"
    batch,          \* processBatch's local batch
    shuffled,       \* processBatch's local shuffled
    sendIdx,        \* packets of shuffled already pushed to processingCh
    tickLeft,       \* time until the ticker fires next (0: no ticker running)
    tickPending,    \* a tick waits in ticker.C (capacity 1)
    procPC,         \* processLoop: "idle" | "select" | "sleep" | "done"
    procPkt,        \* processLoop's local packet
    procDelay,      \* processLoop's local delay
    sleepLeft,      \* time left of time.Sleep(delay)
    slept,          \* time processLoop has held procPkt so far (saturating at maxDelay)
    offered,        \* number of AddPacket calls so far; call k offers packet k
    accepted,       \* packets AddPacket returned nil for
    consumed,       \* packets the consumer has read from GetOutput()
    age,            \* per packet: time since AddPacket accepted it, frozen at emission
    ret,            \* what the last AddPacket call returned
    chunks,         \* ChunkAssembler.chunks: messageID -> seq -> chunk
    cret,           \* what the last call on the assembler returned
    msgs,           \* per message ID: the data and chunk size its sender splits it with
    outbox,         \* per message ID: what SplitMessage returned for it
    delivered,      \* split chunks added to the assembler and not purged since
    held,           \* per message ID: time its entry has been in the assembler (up to TTL + 1)
    pb,             \* what NewPathBuilder returned: the PathBuilder's fields, or its error
    build,          \* the BuildRandomPath / BuildPathExcluding call in progress
    pret,           \* what the last path-building call returned
    relayNodes,     \* RelayNetwork.relayNodes: id -> node (LastSeen kept as the time since)
    rret,           \* what the last BuildRelayPath call was given and returned
    rmsg,           \* the relay message being passed around
    pmret,          \* what the last ProcessRelayMessage call was given and returned
    nodeKeys,       \* nodeKeys: node ID -> layer key
    peers,          \* node.Peers: the IDs ConnectPeer was called with
    wire,           \* the raw message on its way to a node's ReceiveCh
    sent,           \* what the last sendOnion call was given and did
    tried,          \* the keys the raw message has been peeled with since it was sent
    intact,         \* the bytes in flight are what sendOnion made and the hops peeled
    oret,           \* what the last PeelOnion call of the receive loop was given and returned
    packet,         \* a message.Packet
    now,            \* the wall clock, in seconds of Unix time
    signedAs,       \* the packet as the last successful Sign left it, and the key it used
    kret,           \* what the last call on the packet was given and returned
    peerKey,        \* the private key of the key pair peer B has published
    sessions,       \* per peer: its RatchetSession, if it has made one
    chains,         \* per peer: the chain keys its session has had, oldest first
    issued,         \* per peer: the keys GetNextKey has returned, oldest first
    nret,           \* what the last NewRatchetSession call returned
    calls,          \* per goroutine: the call on a shared map it is inside
    mutexHolder,    \* the goroutine holding P2PNode.mutex
    fatal,          \* the Go runtime has thrown on a concurrent map access
    netNodes,       \* MixNetwork.nodes: node ID -> *MixNode
    stopClosed,     \* per MixNode: its stopCh is closed
    starts,         \* per MixNode: the Start calls made on it
    netret          \* what the last AddNode / RemoveNode call was given and returned

mixVars == <<started, stopped, packetQueue, processingCh, outputCh, batchPC, batch,
             shuffled, sendIdx, tickLeft, tickPending, procPC, procPkt, procDelay,
             sleepLeft, slept, offered, accepted, consumed, age, ret>>

chunkVars == <<chunks, cret, msgs, outbox, delivered, held>>

pathVars == <<pb, build, pret>>

relayVars == <<relayNodes, rret, rmsg, pmret>>

onionVars == <<nodeKeys, peers, wire, sent, tried, intact, oret>>

packetVars == <<packet, now, signedAs, kret>>

ratchetVars == <<peerKey, sessions, chains, issued, nret>>

accessVars == <<calls, mutexHolder, fatal>>

networkVars == <<netNodes, stopClosed, starts, netret>>

cryptoVars == <<onionVars, packetVars, ratchetVars>>

sharedVars == <<accessVars, networkVars>>

nonMixVars == <<chunkVars, pathVars, relayVars, cryptoVars, sharedVars>>

nonChunkVars == <<mixVars, pathVars, relayVars, cryptoVars, sharedVars>>

nonPathVars == <<mixVars, chunkVars, relayVars, cryptoVars, sharedVars>>

nonRelayVars == <<mixVars, chunkVars, pathVars, cryptoVars, sharedVars>>

nonOnionVars == <<mixVars, chunkVars, pathVars, relayVars, packetVars, ratchetVars, sharedVars>>

nonPacketVars == <<mixVars, chunkVars, pathVars, relayVars, onionVars, ratchetVars, sharedVars>>

nonRatchetVars == <<mixVars, chunkVars, pathVars, relayVars, onionVars, packetVars, sharedVars>>

nonAccessVars == <<mixVars, chunkVars, pathVars, relayVars, cryptoVars, networkVars>>

nonNetworkVars == <<mixVars, chunkVars, pathVars, relayVars, cryptoVars, accessVars>>

vars == <<mixVars, chunkVars, pathVars, relayVars, cryptoVars, sharedVars>>

(***************************************************************************)
(* routing/mixnode.go                                                      *)
(***************************************************************************)
\* NewMixNode's checks of its arguments.
ValidConfig ==
    /\ maxQueueSize > 0
    /\ batchSize > 0
    /\ minDelay >= 0
    /\ maxDelay >= minDelay

\* Variant of QueueIsFull: the bound tested with > instead of >=.
QueueIsFull_OffByOne(q) == Len(q) > maxQueueSize

\* AddPacket: len(mn.packetQueue) >= mn.maxQueueSize
QueueIsFull(q) == Len(q) >= maxQueueSize

\* Variant of BatchLen: only full batches are taken.
BatchLen_FullOnly(q) == IF batchSize > Len(q) THEN 0 ELSE batchSize

\* processBatch: the batch size, capped by the queue length.
BatchLen(q) == IF batchSize > Len(q) THEN Len(q) ELSE batchSize

\* Variant of BatchOf: the batch is taken from the tail of the queue.
BatchOf_Tail(q, n) == SubSeq(q, Len(q) - n + 1, Len(q))

\* processBatch: copy(batch, mn.packetQueue[:batchSize])
BatchOf(q, n) == SubSeq(q, 1, n)

\* Variant of RestOf: the queue keeps the last packet of the batch.
RestOf_KeepLast(q, n) == SubSeq(q, n, Len(q))

\* processBatch: mn.packetQueue = mn.packetQueue[batchSize:]
RestOf(q, n) == SubSeq(q, n + 1, Len(q))

\* Variant of ShuffleDraws: the draw excludes position i itself.
ShuffleDraws_NoSelf(i) == 1..(i - 1)

\* The draws rand.Int(rand.Reader, i+1) can return: 0..i (here on 1-based positions,
\* position i pairs with a position in 1..i).
ShuffleDraws(i) == 1..i

\* shuffleBatch's loop from position i down: every sequence the Fisher-Yates
\* swaps can leave, over all draws.
RECURSIVE FisherYates(_, _)
FisherYates(s, i) ==
    IF i <= 1 THEN {s}
    ELSE UNION {FisherYates(Swap(s, i, j), i - 1) : j \in ShuffleDraws(i)}

\* shuffleBatch(batch): the outcomes, each with the caller's slice after the call.
\* The shuffle works on a copy; a failing rand.Int returns (nil, err).
shuffleBatch(b) ==
    {[shuffled |-> s, err |-> FALSE, batch |-> b] : s \in FisherYates(b, Len(b))}
        \cup (IF Len(b) > 1 THEN {[shuffled |-> <<>>, err |-> TRUE, batch |-> b]} ELSE {})

\* processBatch: shuffled, err := shuffleBatch(batch); if err != nil { shuffled = batch }
ShuffledOrBatch(r) == IF r.err THEN r.batch ELSE r.shuffled

\* randomDelay: minDelay when the bounds coincide or rand.Int fails, else
\* minDelay + an offset in [0, maxDelay - minDelay).
randomDelay ==
    IF minDelay = maxDelay THEN {minDelay}
    ELSE {minDelay} \cup {minDelay + off : off \in 0..(maxDelay - minDelay - 1)}

MixInit ==
    /\ started = FALSE
    /\ stopped = FALSE
    /\ packetQueue = <<>>
    /\ processingCh = <<>>
    /\ outputCh = <<>>
    /\ batchPC = "idle"
    /\ batch = <<>>
    /\ shuffled = <<>>
    /\ sendIdx = 0
    /\ tickLeft = 0
    /\ tickPending = FALSE
    /\ procPC = "idle"
    /\ procPkt = NoPacket
    /\ procDelay = 0
    /\ sleepLeft = 0
    /\ slept = 0
    /\ offered = 0
    /\ accepted = {}
    /\ consumed = {}
    /\ age = [p \in Packets |-> 0]
    /\ ret = [op |-> "none", pkt |-> NoPacket, err |-> "nil"]

\* Start: go mn.processLoop(); go mn.batchLoop() (which creates its ticker).
Start ==
    /\ UNCHANGED nonMixVars
    /\ ~started
    /\ started' = TRUE
    /\ batchPC' = "select"
    /\ procPC' = "select"
    /\ tickLeft' = TickPeriod
    /\ UNCHANGED <<stopped, packetQueue, processingCh, outputCh, batch, shuffled, sendIdx,
                   tickPending, procPkt, procDelay, sleepLeft, slept, offered, accepted,
                   consumed, age, ret>>

\* Stop: close(mn.stopCh).
Stop ==
    /\ UNCHANGED nonMixVars
    /\ ~stopped
    /\ stopped' = TRUE
    /\ UNCHANGED <<started, packetQueue, processingCh, outputCh, batchPC, batch, shuffled,
                   sendIdx, tickLeft, tickPending, procPC, procPkt, procDelay, sleepLeft, slept,
                   offered, accepted, consumed, age, ret>>

\* Variant of QueueMutexHeld: processBatch unlocks only after its sends.
QueueMutexHeld_WhileSending(pc) == pc = "send"

\* batchLoop at position pc holds mn.mu: processBatch unlocks on the empty queue and
\* right after the extraction, before it shuffles and sends, so between its steps
\* the batch former never holds the mutex.
QueueMutexHeld(pc) == FALSE

\* AddPacket(packet), under mn.mu, which it waits for.
AddPacket ==
    /\ UNCHANGED nonMixVars
    /\ ~QueueMutexHeld(batchPC)
    /\ offered < MaxPackets
    /\ LET p == offered + 1 IN
        /\ offered' = p
        /\ IF QueueIsFull(packetQueue)
           THEN /\ ret' = [op |-> "AddPacket", pkt |-> p, err |-> "queue is full"]
                /\ UNCHANGED <<packetQueue, accepted>>
           ELSE /\ packetQueue' = Append(packetQueue, p)
                /\ accepted' = accepted \cup {p}
                /\ ret' = [op |-> "AddPacket", pkt |-> p, err |-> "nil"]
    /\ UNCHANGED <<started, stopped, processingCh, outputCh, batchPC, batch, shuffled,
                   sendIdx, tickLeft, tickPending, procPC, procPkt, procDelay, sleepLeft, slept,
                   consumed, age>>

\* batchLoop: case <-ticker.C: mn.processBatch(), up to the first send.
BatchTick ==
    /\ UNCHANGED nonMixVars
    /\ batchPC = "select"
    /\ tickPending
    /\ tickPending' = FALSE
    /\ IF Len(packetQueue) = 0
       THEN UNCHANGED <<packetQueue, batchPC, batch, shuffled, sendIdx>>
       ELSE LET n == BatchLen(packetQueue) IN
            \E r \in shuffleBatch(BatchOf(packetQueue, n)) :
                /\ packetQueue' = RestOf(packetQueue, n)
                /\ sendIdx' = 0
                /\ IF Len(ShuffledOrBatch(r)) = 0
                   THEN UNCHANGED <<batchPC, batch, shuffled>>
                   ELSE /\ batch' = r.batch
                        /\ shuffled' = ShuffledOrBatch(r)
                        /\ batchPC' = "send"
    /\ UNCHANGED <<started, stopped, processingCh, outputCh, tickLeft, procPC, procPkt,
                   procDelay, sleepLeft, slept, offered, accepted, consumed, age, ret>>

\* processBatch: case mn.processingCh <- packet
BatchSend ==
    /\ UNCHANGED nonMixVars
    /\ batchPC = "send"
    /\ Len(processingCh) < maxQueueSize
    /\ processingCh' = Append(processingCh, shuffled[sendIdx + 1])
    /\ IF sendIdx + 1 = Len(shuffled)
       THEN /\ batchPC' = "select"
            /\ batch' = <<>>
            /\ shuffled' = <<>>
            /\ sendIdx' = 0
       ELSE /\ sendIdx' = sendIdx + 1
            /\ UNCHANGED <<batchPC, batch, shuffled>>
    /\ UNCHANGED <<started, stopped, packetQueue, outputCh, tickLeft, tickPending, procPC,
                   procPkt, procDelay, sleepLeft, slept, offered, accepted, consumed, age, ret>>

\* processBatch: case <-mn.stopCh: return (the rest of the batch is dropped).
BatchSendStop ==
    /\ UNCHANGED nonMixVars
    /\ batchPC = "send"
    /\ stopped
    /\ batchPC' = "select"
    /\ batch' = <<>>
    /\ shuffled' = <<>>
    /\ sendIdx' = 0
    /\ age' = [p \in Packets |->
                 IF p \in Range(SubSeq(shuffled, sendIdx + 1, Len(shuffled))) THEN 0 ELSE age[p]]
    /\ UNCHANGED <<started, stopped, packetQueue, processingCh, outputCh, tickLeft,
                   tickPending, procPC, procPkt, procDelay, sleepLeft, slept, offered, accepted,
                   consumed, ret>>

\* batchLoop: case <-mn.stopCh: return (the deferred ticker.Stop() runs).
BatchStop ==
    /\ UNCHANGED nonMixVars
    /\ batchPC = "select"
    /\ stopped
    /\ batchPC' = "done"
    /\ tickLeft' = 0
    /\ tickPending' = FALSE
    /\ UNCHANGED <<started, stopped, packetQueue, processingCh, outputCh, batch, shuffled,
                   sendIdx, procPC, procPkt, procDelay, sleepLeft, slept, offered, accepted,
                   consumed, age, ret>>

\* Variant of SleepTime: the sleep is one time unit short.
SleepTime_Short(d) == IF d > 0 THEN d - 1 ELSE 0

\* processLoop: time.Sleep(delay) sleeps for the delay sampled.
SleepTime(d) == d

\* Variant of Received: the receive takes the newest packet of the channel.
Received_Newest(ch) == ch[Len(ch)]

\* A receive from a Go channel takes the value sent first.
Received(ch) == Head(ch)

\* processLoop: case packet := <-mn.processingCh: delay := mn.randomDelay(); time.Sleep(delay)
DelayerRecv ==
    /\ UNCHANGED nonMixVars
    /\ procPC = "select"
    /\ Len(processingCh) > 0
    /\ \E d \in randomDelay :
        /\ procDelay' = d
        /\ sleepLeft' = SleepTime(d)
    /\ slept' = 0
    /\ procPkt' = Received(processingCh)
    /\ processingCh' = Tail(processingCh)
    /\ procPC' = "sleep"
    /\ UNCHANGED <<started, stopped, packetQueue, outputCh, batchPC, batch, shuffled,
                   sendIdx, tickLeft, tickPending, offered, accepted, consumed, age, ret>>

\* processLoop: mn.outputCh <- packet, once the sleep is over (a plain blocking send).
DelayerSend ==
    /\ UNCHANGED nonMixVars
    /\ procPC = "sleep"
    /\ sleepLeft = 0
    /\ Len(outputCh) < maxQueueSize
    /\ outputCh' = Append(outputCh, procPkt)
    /\ procPC' = "select"
    /\ procPkt' = NoPacket
    /\ procDelay' = 0
    /\ slept' = 0
    /\ UNCHANGED <<started, stopped, packetQueue, processingCh, batchPC, batch, shuffled,
                   sendIdx, tickLeft, tickPending, sleepLeft, offered, accepted, consumed,
                   age, ret>>

\* processLoop: case <-mn.stopCh: return
DelayerStop ==
    /\ UNCHANGED nonMixVars
    /\ procPC = "select"
    /\ stopped
    /\ procPC' = "done"
    /\ UNCHANGED <<started, stopped, packetQueue, processingCh, outputCh, batchPC, batch,
                   shuffled, sendIdx, tickLeft, tickPending, procPkt, procDelay, sleepLeft, slept,
                   offered, accepted, consumed, age, ret>>

\* The consumer of GetOutput() receives one packet.
ReadOutput ==
    /\ UNCHANGED nonMixVars
    /\ Len(outputCh) > 0
    /\ consumed' = consumed \cup {Head(outputCh)}
    /\ outputCh' = Tail(outputCh)
    /\ age' = [age EXCEPT ![Head(outputCh)] = 0]
    /\ UNCHANGED <<started, stopped, packetQueue, processingCh, batchPC, batch, shuffled,
                   sendIdx, tickLeft, tickPending, procPC, procPkt, procDelay, sleepLeft, slept,
                   offered, accepted, ret>>

\* The packets still on their way to the output channel.
InFlight ==
    Range(packetQueue) \cup Range(SubSeq(shuffled, sendIdx + 1, Len(shuffled)))
        \cup Range(processingCh) \cup (IF procPkt = NoPacket THEN {} ELSE {procPkt})

\* One time unit passes for the node: the ticker (time.NewTicker(100ms), whose
\* channel holds one tick and drops the rest) and the delayer's time.Sleep advance.
Elapse ==
    /\ UNCHANGED nonMixVars
    /\ started
    /\ tickLeft' = IF tickLeft = 0 THEN 0
                   ELSE IF tickLeft = 1 THEN TickPeriod ELSE tickLeft - 1
    /\ tickPending' = (tickPending \/ tickLeft = 1)
    /\ sleepLeft' = IF sleepLeft > 0 THEN sleepLeft - 1 ELSE 0
    /\ slept' = IF procPC = "sleep" THEN Min(slept + 1, maxDelay) ELSE slept
    /\ UNCHANGED <<started, stopped, packetQueue, processingCh, outputCh, batchPC, batch,
                   shuffled, sendIdx, procPC, procPkt, procDelay, offered, accepted,
                   consumed, ret>>

\* Time passes at any moment (the goroutines may be arbitrarily slow); packet ages
\* are not observed.
AdvanceTime ==
    /\ Elapse
    /\ UNCHANGED age

\* A step of the node's two goroutines or of the output's consumer.
Internal ==
    \/ BatchTick
    \/ BatchSend
    \/ BatchSendStop
    \/ BatchStop
    \/ DelayerRecv
    \/ DelayerSend
    \/ DelayerStop
    \/ ReadOutput

\* Time passes only when no goroutine and no reader can take a step (no processing
\* time at all), and the age of every packet on its way is observed.
TimedAdvance ==
    /\ ~ENABLED Internal
    /\ Elapse
    /\ age' = [p \in Packets |-> IF p \in InFlight THEN Min(age[p] + 1, AgeCap) ELSE age[p]]

TimedNext ==
    \/ Start
    \/ Stop
    \/ AddPacket
    \/ Internal
    \/ TimedAdvance

MixNext ==
    \/ Start
    \/ Stop
    \/ AddPacket
    \/ Internal
    \/ AdvanceTime

(***************************************************************************)
(* message/chunk.go                                                        *)
(***************************************************************************)
MessageIDs == {"m1", "m2"}
Bytes == {1, 2}

\* The chunks AddChunk is called with in ChunkSpec: any ID (also the empty one),
\* any seq and total around the valid range, empty or one-byte data.
ChunkData == {<<>>, <<1>>, <<2>>}
ChunkInputs ==
    [MessageID : MessageIDs \cup {""}, Seq : -1..MaxTotal, Total : 0..MaxTotal, Data : ChunkData]

\* The messages split in SplitSpec.
Payloads == UNION {[1..n -> Bytes] : n \in 0..MaxDataLen}
ChunkSizes == (-1..MaxChunkSize) \cup {MaxInt}
OtherPayloads == {<<2>>, <<2, 1>>}

\* Go's int arithmetic wraps around (the width is scaled down to MaxInt).
Wrap(x) == ((x + MaxInt + 1) % (2 * (MaxInt + 1))) - (MaxInt + 1)

\* Go's integer division truncates toward zero (b > 0).
Quo(a, b) == IF a >= 0 THEN a \div b ELSE -((-a) \div b)

NilErr == "nil"
IncompleteErr == "message is not complete"
NilDerefPanic == "panic: nil pointer dereference"
MakeSlicePanic == "panic: makeslice: cap out of range"

\* NewChunk
NewChunk(messageID, seq, total, data) ==
    [MessageID |-> messageID, Seq |-> seq, Total |-> total, Data |-> data]

\* Variant of Validate: a sequence number equal to the total is let through.
Validate_SeqUpToTotal(c) ==
    IF c.MessageID = "" THEN "message ID cannot be empty"
    ELSE IF c.Seq < 0 \/ c.Seq > c.Total THEN "invalid sequence number"
    ELSE IF c.Total <= 0 THEN "total chunks must be positive"
    ELSE IF Len(c.Data) = 0 THEN "chunk data cannot be empty"
    ELSE NilErr

\* Chunk.Validate: the error returned (NilErr for none), in the order of the checks.
Validate(c) ==
    IF c.MessageID = "" THEN "message ID cannot be empty"
    ELSE IF c.Seq < 0 \/ c.Seq >= c.Total THEN "invalid sequence number"
    ELSE IF c.Total <= 0 THEN "total chunks must be positive"
    ELSE IF Len(c.Data) = 0 THEN "chunk data cannot be empty"
    ELSE NilErr

\* m[k] = v on a Go map.
MapPut(m, k, v) == [x \in DOMAIN m \cup {k} |-> IF x = k THEN v ELSE m[x]]

\* Variant of MapDelete: the whole map is cleared.
MapDelete_All(m, k) == <<>>

\* delete(m, k) on a Go map.
MapDelete(m, k) == [x \in DOMAIN m \ {k} |-> m[x]]

\* Variant of ChunkKey: chunks are stored in the order they arrive.
ChunkKey_Arrival(entry, c) == Cardinality(DOMAIN entry)

\* The key AddChunk stores a chunk under: chunk.Seq.
ChunkKey(entry, c) == c.Seq

\* Variant of AddChunkTo: a chunk already stored under the key is kept.
AddChunkTo_KeepFirst(m, c) ==
    IF c.MessageID \in DOMAIN m /\ c.Seq \in DOMAIN m[c.MessageID] THEN m
    ELSE MapPut(m, c.MessageID,
                MapPut(IF c.MessageID \in DOMAIN m THEN m[c.MessageID] ELSE <<>>, c.Seq, c))

\* AddChunk after a successful Validate: ca.chunks[chunk.MessageID][chunk.Seq] = chunk,
\* creating the message's entry when it is missing.
AddChunkTo(m, c) ==
    LET entry == IF c.MessageID \in DOMAIN m THEN m[c.MessageID] ELSE <<>>
    IN MapPut(m, c.MessageID, MapPut(entry, ChunkKey(entry, c), c))

\* AddChunk(chunk) on assembler map m: the error returned and the map afterwards.
AddChunkResult(m, c) ==
    LET err == Validate(c)
    IN [err |-> err, chunks |-> IF err = NilErr THEN AddChunkTo(m, c) ELSE m]

\* IsComplete once `total` is read from the first chunk the map iteration yields:
\* len(chunks) == total and every i < total is a key.
IsCompleteWith(entry, total) ==
    /\ Cardinality(DOMAIN entry) = total
    /\ \A i \in 0..(total - 1) : i \in DOMAIN entry

\* IsComplete(messageID): the answers it can give. Go iterates a map in an
\* unspecified order, so any stored chunk may be the one whose Total is read.
IsCompleteResults(m, id) ==
    IF id \notin DOMAIN m \/ DOMAIN m[id] = {} THEN {FALSE}
    ELSE {IsCompleteWith(m[id], m[id][s].Total) : s \in DOMAIN m[id]}

\* Assemble's loop: result = append(result, chunks[i].Data...) for i in from..total-1.
RECURSIVE ConcatChunks(_, _, _)
ConcatChunks(entry, from, total) ==
    IF from >= total THEN <<>>
    ELSE entry[from].Data \o ConcatChunks(entry, from + 1, total)

\* Assemble after IsComplete answered true: total := chunks[0].Total, then the loop,
\* which dereferences a nil *Chunk when a sequence number below total is missing.
AssembleComplete(m, id) ==
    LET entry == m[id]
        total == entry[0].Total
    IN IF \E i \in 0..(total - 1) : i \notin DOMAIN entry
       THEN [err |-> NilDerefPanic, data |-> <<>>, chunks |-> m]
       ELSE [err |-> NilErr, data |-> ConcatChunks(entry, 0, total), chunks |-> MapDelete(m, id)]

\* Assemble(messageID): the outcomes, each with the assembler's map after the call.
AssembleResults(m, id) ==
    {IF complete THEN AssembleComplete(m, id)
     ELSE [err |-> IncompleteErr, data |-> <<>>, chunks |-> m] :
        complete \in IsCompleteResults(m, id)}

\* The chunk SplitMessage builds in iteration i of its loop.
SplitChunk(messageID, data, chunkSize, total, i) ==
    LET start == Wrap(i * chunkSize)
        end == Wrap(start + chunkSize)
    IN NewChunk(messageID, i, total,
                SubSeq(data, start + 1, IF end > Len(data) THEN Len(data) ELSE end))

\* SplitMessage: total := (len(data) + chunkSize - 1) / chunkSize
SplitTotal(n, chunkSize) == Quo(Wrap(Wrap(n + chunkSize) - 1), chunkSize)

\* SplitMessage(messageID, data, chunkSize): the error and the chunks returned;
\* make([]*Chunk, 0, total) panics on a negative total.
SplitMessage(messageID, data, chunkSize) ==
    IF chunkSize <= 0 THEN [err |-> "chunk size must be positive", chunks |-> <<>>]
    ELSE IF Len(data) = 0 THEN [err |-> "data cannot be empty", chunks |-> <<>>]
    ELSE LET total == SplitTotal(Len(data), chunkSize)
         IN IF total < 0 THEN [err |-> MakeSlicePanic, chunks |-> <<>>]
            ELSE [err |-> NilErr,
                  chunks |-> [k \in 1..total |->
                                SplitChunk(messageID, data, chunkSize, total, k - 1)]]

NoCall == [op |-> "none", id |-> "", err |-> NilErr, ok |-> FALSE, data |-> <<>>]
NotSplit == [err |-> "not called", chunks |-> <<>>]

\* A panic ends the process.
Crashed ==
    \/ cret.err = NilDerefPanic
    \/ \E id \in DOMAIN outbox : outbox[id].err = MakeSlicePanic

\* NewChunkAssembler; no message has been split yet.
ChunkInit ==
    /\ chunks = <<>>
    /\ cret = NoCall
    /\ outbox = [id \in MessageIDs |-> NotSplit]
    /\ delivered = {}
    /\ held = [id \in MessageIDs |-> 0]

\* ca.AddChunk(c)
AddChunk(c) ==
    /\ ~Crashed
    /\ LET r == AddChunkResult(chunks, c) IN
        /\ cret' = [op |-> "AddChunk", id |-> c.MessageID, err |-> r.err, ok |-> FALSE,
                    data |-> <<>>]
        /\ chunks' = r.chunks
    /\ UNCHANGED <<msgs, outbox, held>>
    /\ UNCHANGED nonChunkVars

\* ca.IsComplete(id)
IsCompleteCall(id) ==
    /\ ~Crashed
    /\ \E b \in IsCompleteResults(chunks, id) :
        cret' = [op |-> "IsComplete", id |-> id, err |-> NilErr, ok |-> b, data |-> <<>>]
    /\ UNCHANGED <<chunks, msgs, outbox, delivered, held>>
    /\ UNCHANGED nonChunkVars

\* ca.Assemble(id)
Assemble(id) ==
    /\ ~Crashed
    /\ \E r \in AssembleResults(chunks, id) :
        /\ cret' = [op |-> "Assemble", id |-> id, err |-> r.err, ok |-> FALSE,
                    data |-> r.data]
        /\ chunks' = r.chunks
        /\ delivered' = IF r.err = NilErr THEN {c \in delivered : c.MessageID # id}
                        ELSE delivered
        /\ held' = IF r.err = NilErr /\ id \in DOMAIN held
                   THEN [held EXCEPT ![id] = 0]
                   ELSE held
    /\ UNCHANGED <<msgs, outbox>>
    /\ UNCHANGED nonChunkVars

\* The number of chunks the assembler holds.
StoredCount == Cardinality(UNION {{<<id, s>> : s \in DOMAIN chunks[id]} : id \in DOMAIN chunks})

\* Any chunk arrives, while the assembler holds fewer than MaxStored chunks.
AddAnyChunk ==
    /\ StoredCount < MaxStored
    /\ \E c \in ChunkInputs :
        /\ AddChunk(c)
        /\ UNCHANGED delivered

IsCompleteAny == \E id \in MessageIDs \cup {""} : IsCompleteCall(id)

AssembleAny == \E id \in MessageIDs \cup {""} : Assemble(id)

ChunkNext ==
    \/ AddAnyChunk
    \/ IsCompleteAny
    \/ AssembleAny

\* Time passes for the assembler: no code of the ChunkAssembler runs on a timer,
\* only the time each stored message has been held grows.
ChunkElapse ==
    /\ ~Crashed
    /\ held' = [id \in MessageIDs |->
                  IF id \in DOMAIN chunks /\ held[id] <= TTL THEN held[id] + 1 ELSE held[id]]
    /\ UNCHANGED <<chunks, cret, msgs, outbox, delivered>>
    /\ UNCHANGED nonChunkVars

TtlNext ==
    \/ AddAnyChunk
    \/ IsCompleteAny
    \/ AssembleAny
    \/ ChunkElapse

\* The sender splits message id.
DoSplit ==
    \E id \in MessageIDs :
        /\ ~Crashed
        /\ outbox[id] = NotSplit
        /\ outbox' = [outbox EXCEPT ![id] = SplitMessage(id, msgs[id].data, msgs[id].size)]
        /\ UNCHANGED <<chunks, cret, msgs, delivered, held>>
        /\ UNCHANGED nonChunkVars

\* A chunk of a split message arrives (in any order, and again).
Deliver ==
    \E id \in MessageIDs :
        \E k \in 1..Len(outbox[id].chunks) :
            /\ AddChunk(outbox[id].chunks[k])
            /\ delivered' = IF cret'.err = NilErr
                            THEN delivered \cup {outbox[id].chunks[k]}
                            ELSE delivered

IsCompleteSplit == \E id \in MessageIDs : IsCompleteCall(id)

AssembleSplit == \E id \in MessageIDs : Assemble(id)

SplitNext ==
    \/ DoSplit
    \/ Deliver
    \/ IsCompleteSplit
    \/ AssembleSplit

\* One message to split is fixed for the specifications that split none.
DefaultMsgs == [id \in MessageIDs |-> [data |-> <<1>>, size |-> 1]]

(***************************************************************************)
(* routing/path.go                                                         *)
(***************************************************************************)
NodeIDs == {"n1", "n2", "n3"}

\* The node lists NewPathBuilder is called with (repeated IDs included).
NodeLists == UNION {[1..n -> NodeIDs] : n \in 0..MaxNodes}

RandErr == "rand: read failed"
NoNodesErr == "no nodes available"
ExclusionErr == "not enough nodes after exclusion"
EmptyPathErr == "path must contain at least one node"

\* NewPathBuilder(nodes, minLength, maxLength)
NewPathBuilder(nodes, minLength, maxLength) ==
    LET err == IF minLength < 1 THEN "minimum path length must be at least 1"
               ELSE IF maxLength < minLength
                    THEN "maximum path length must be >= minimum path length"
               ELSE IF Len(nodes) < minLength
                    THEN "not enough nodes for minimum path length"
               ELSE NilErr
    IN [err |-> err,
        availableNodes |-> IF err = NilErr THEN nodes ELSE <<>>,
        minPathLength |-> IF err = NilErr THEN minLength ELSE 0,
        maxPathLength |-> IF err = NilErr THEN maxLength ELSE 0]

\* NewPath(nodes)
NewPath(nodes) ==
    IF Len(nodes) = 0 THEN [err |-> EmptyPathErr, path |-> <<>>]
    ELSE [err |-> NilErr, path |-> nodes]

\* Variant of ClampLength: the length drawn is kept whatever the number of nodes.
ClampLength_None(pathLength, n) == pathLength

\* BuildRandomPath: if pathLength > len(pb.availableNodes) it is cut down to it.
ClampLength(pathLength, n) == IF pathLength > n THEN n ELSE pathLength

\* Variant of FreshIndices: an index is taken whether or not it was used before.
FreshIndices_Any(n, used) == 1..n

\* BuildRandomPath's loop: the indices (from 1 here) with !usedIndices[index].
FreshIndices(n, used) == (1..n) \ used

\* BuildPathExcluding: the available nodes that are not in excludeMap, in order.
RECURSIVE Filtered(_, _)
Filtered(nodes, E) ==
    IF nodes = <<>> THEN <<>>
    ELSE IF Head(nodes) \in E THEN Filtered(Tail(nodes), E)
    ELSE <<Head(nodes)>> \o Filtered(Tail(nodes), E)

\* Variant of TooFewNodes: one node fewer than minPathLength is let through.
TooFewNodes_OffByOne(n, minLength) == n < minLength - 1

\* BuildPathExcluding: len(filtered) < pb.minPathLength
TooFewNodes(n, minLength) == n < minLength

NoBuild == [pc |-> "idle", op |-> "none", exclude |-> {}, nodes |-> <<>>, minLen |-> 0,
            maxLen |-> 0, pathLength |-> 0, selectedNodes |-> <<>>, usedIndices |-> {}]
NoPathRet == [op |-> "none", exclude |-> {}, err |-> NilErr, path |-> <<>>]

\* No path builder is in use.
PathIdle ==
    /\ pb = NewPathBuilder(<<>>, 0, 0)
    /\ build = NoBuild
    /\ pret = NoPathRet

\* NewPathBuilder has been called with any node list and any bounds.
PathInit ==
    /\ \E nodes \in NodeLists, minLength \in 0..MaxHops, maxLength \in 0..MaxHops :
        pb = NewPathBuilder(nodes, minLength, maxLength)
    /\ build = NoBuild
    /\ pret = NoPathRet

\* The call in progress (or being made) as op with exclusion set E returns.
PathReturn(op, E, err, path) ==
    /\ pret' = [op |-> op, exclude |-> E, err |-> err, path |-> path]
    /\ build' = NoBuild

\* builder b's BuildRandomPath is entered, on behalf of call op with exclusion set E.
EnterBuildRandomPath(op, E, b) ==
    IF Len(b.availableNodes) = 0
    THEN PathReturn(op, E, NoNodesErr, <<>>)
    ELSE /\ build' = [pc |-> "length", op |-> op, exclude |-> E,
                      nodes |-> b.availableNodes, minLen |-> b.minPathLength,
                      maxLen |-> b.maxPathLength, pathLength |-> 0,
                      selectedNodes |-> <<>>, usedIndices |-> {}]
         /\ pret' = NoPathRet

\* pb.BuildRandomPath() is called.
CallBuildRandomPath ==
    /\ pb.err = NilErr
    /\ build.pc = "idle"
    /\ EnterBuildRandomPath("BuildRandomPath", {}, pb)
    /\ UNCHANGED pb
    /\ UNCHANGED nonPathVars

\* pb.BuildPathExcluding(excludeNodes) is called, E the set of the excluded nodes.
CallBuildPathExcluding ==
    /\ pb.err = NilErr
    /\ build.pc = "idle"
    /\ \E E \in SUBSET NodeIDs :
        LET filtered == Filtered(pb.availableNodes, E)
            tempBuilder == NewPathBuilder(filtered, pb.minPathLength, pb.maxPathLength)
        IN IF TooFewNodes(Len(filtered), pb.minPathLength)
           THEN PathReturn("BuildPathExcluding", E, ExclusionErr, <<>>)
           ELSE IF tempBuilder.err # NilErr
           THEN PathReturn("BuildPathExcluding", E, tempBuilder.err, <<>>)
           ELSE EnterBuildRandomPath("BuildPathExcluding", E, tempBuilder)
    /\ UNCHANGED pb
    /\ UNCHANGED nonPathVars

\* BuildRandomPath draws lengthOffset and fixes pathLength.
ChooseLength ==
    /\ build.pc = "length"
    /\ \E lengthOffset \in 0..(build.maxLen - build.minLen) :
        build' = [build EXCEPT !.pc = "loop",
                               !.pathLength = ClampLength(build.minLen + lengthOffset,
                                                          Len(build.nodes))]
    /\ UNCHANGED <<pb, pret>>
    /\ UNCHANGED nonPathVars

\* One iteration of the selection loop that draws an index it accepts (an iteration
\* drawing a used index changes nothing).
DrawIndex ==
    /\ build.pc = "loop"
    /\ Len(build.selectedNodes) < build.pathLength
    /\ \E index \in FreshIndices(Len(build.nodes), build.usedIndices) :
        build' = [build EXCEPT !.usedIndices = @ \cup {index},
                               !.selectedNodes = Append(@, build.nodes[index])]
    /\ UNCHANGED <<pb, pret>>
    /\ UNCHANGED nonPathVars

\* rand.Int fails, for the length or in the loop: the call returns its error.
RandFails ==
    /\ \/ build.pc = "length"
       \/ build.pc = "loop" /\ Len(build.selectedNodes) < build.pathLength
    /\ PathReturn(build.op, build.exclude, RandErr, <<>>)
    /\ UNCHANGED pb
    /\ UNCHANGED nonPathVars

\* The loop is over: return NewPath(selectedNodes).
ReturnPath ==
    /\ build.pc = "loop"
    /\ Len(build.selectedNodes) >= build.pathLength
    /\ LET r == NewPath(build.selectedNodes)
       IN PathReturn(build.op, build.exclude, r.err, r.path)
    /\ UNCHANGED pb
    /\ UNCHANGED nonPathVars

PathNext ==
    \/ CallBuildRandomPath
    \/ CallBuildPathExcluding
    \/ ChooseLength
    \/ DrawIndex
    \/ RandFails
    \/ ReturnPath

(***************************************************************************)
(* network/relay.go                                                        *)
(***************************************************************************)
RelayIDs == {"r1", "r2", "r3"}

\* Time is counted in units of 5 minutes: a node is offered as a relay while
\* time.Since(LastSeen) < 5 minutes, and cleaned up once LastSeen is more than
\* 10 minutes back.
FreshWindow == 1
StaleCutoff == 2

NotEnoughRelaysErr == "not enough relay nodes available"
HopLimitErr == "message exceeded hop limit"

\* Variant of IsFresh: a node counts as fresh until it is cleaned up.
IsFresh_UntilCleanup(since) == since <= StaleCutoff

\* time.Since(node.LastSeen) < 5*time.Minute
IsFresh(since) == since < FreshWindow

\* BuildRelayPath's filter: the IDs appended to `available`.
Available(nodes, E) ==
    {id \in DOMAIN nodes : id \notin E /\ nodes[id].IsRelay /\ IsFresh(nodes[id].since)}

\* BuildRelayPath: the values pathLength can have before the selection loop.
RelayPathLengths(n, minHops, maxHops) ==
    LET drawn == IF maxHops > minHops /\ n >= maxHops
                 THEN {minHops + offset : offset \in 0..(maxHops - minHops)}
                 ELSE {minHops}
    IN {IF l > n THEN n ELSE l : l \in drawn}

\* BuildRelayPath's selection loop: the paths of n nodes it can build, each node
\* taken from an index not used before.
RECURSIVE SelectPaths(_, _)
SelectPaths(available, n) ==
    IF n <= 0 THEN {<<>>}
    ELSE UNION {{Append(p, x) : x \in available \ Range(p)} : p \in SelectPaths(available, n - 1)}

\* BuildRelayPath(minHops, maxHops, excludeNodes) on the node map: what it can
\* return. The error of rand.Int is dropped and its nil result dereferenced, and a
\* negative pathLength makes make() panic.
BuildRelayPath(nodes, minHops, maxHops, E) ==
    LET available == Available(nodes, E)
        n == Cardinality(available)
        draws == maxHops > minHops /\ n >= maxHops
    IN IF n < minHops THEN {[err |-> NotEnoughRelaysErr, path |-> <<>>]}
       ELSE UNION {IF l < 0 THEN {[err |-> MakeSlicePanic, path |-> <<>>]}
                   ELSE {[err |-> NilErr, path |-> p] : p \in SelectPaths(available, l)}
                        \cup (IF draws \/ l > 0
                              THEN {[err |-> NilDerefPanic, path |-> <<>>]}
                              ELSE {}) :
                   l \in RelayPathLengths(n, minHops, maxHops)}

NoRelayRet == [minHops |-> 0, maxHops |-> 0, exclude |-> {}, err |-> "not called", path |-> <<>>]

\* A panic in BuildRelayPath ends the process.
RelayCrashed == rret.err \in {NilDerefPanic, MakeSlicePanic}

\* NewRelayNetwork
RelayInit ==
    /\ relayNodes = <<>>
    /\ rret = NoRelayRet

\* rn.RegisterRelayNode(id, addr)
RegisterRelayNode ==
    /\ ~RelayCrashed
    /\ \E id \in RelayIDs :
        relayNodes' = MapPut(relayNodes, id, [since |-> 0, IsRelay |-> TRUE])
    /\ UNCHANGED <<rret, rmsg, pmret>>
    /\ UNCHANGED nonRelayVars

\* rn.UnregisterRelayNode(id)
UnregisterRelayNode ==
    /\ ~RelayCrashed
    /\ \E id \in RelayIDs : relayNodes' = MapDelete(relayNodes, id)
    /\ UNCHANGED <<rret, rmsg, pmret>>
    /\ UNCHANGED nonRelayVars

\* rn.UpdateNodeStatus(nodeID)
UpdateNodeStatus ==
    /\ ~RelayCrashed
    /\ \E id \in RelayIDs :
        relayNodes' = IF id \in DOMAIN relayNodes
                      THEN [relayNodes EXCEPT ![id].since = 0]
                      ELSE relayNodes
    /\ UNCHANGED <<rret, rmsg, pmret>>
    /\ UNCHANGED nonRelayVars

\* rn.CleanupStaleNodes(): every node with LastSeen before now - 10 minutes goes.
CleanupStaleNodes ==
    /\ ~RelayCrashed
    /\ relayNodes' = [id \in {x \in DOMAIN relayNodes : relayNodes[x].since <= StaleCutoff} |->
                        relayNodes[id]]
    /\ UNCHANGED <<rret, rmsg, pmret>>
    /\ UNCHANGED nonRelayVars

\* Time passes for the registered nodes (counted up to StaleCutoff + 1).
RelayElapse ==
    /\ ~RelayCrashed
    /\ relayNodes' = [id \in DOMAIN relayNodes |->
                        [relayNodes[id] EXCEPT !.since = Min(@ + 1, StaleCutoff + 1)]]
    /\ UNCHANGED <<rret, rmsg, pmret>>
    /\ UNCHANGED nonRelayVars

\* rn.BuildRelayPath(minHops, maxHops, excludeNodes), run under the read lock.
CallBuildRelayPath ==
    /\ ~RelayCrashed
    /\ \E minHops \in 0..MaxRelayHops, maxHops \in 0..MaxRelayHops, E \in SUBSET RelayIDs :
        \E r \in BuildRelayPath(relayNodes, minHops, maxHops, E) :
            rret' = [minHops |-> minHops, maxHops |-> maxHops, exclude |-> E,
                     err |-> r.err, path |-> r.path]
    /\ UNCHANGED <<relayNodes, rmsg, pmret>>
    /\ UNCHANGED nonRelayVars

RelayNext ==
    \/ RegisterRelayNode
    \/ UnregisterRelayNode
    \/ UpdateNodeStatus
    \/ CleanupStaleNodes
    \/ RelayElapse
    \/ CallBuildRelayPath

\* The variables neither path builder touches.
nonBuildVars == <<mixVars, chunkVars, cryptoVars, sharedVars>>

\* Every relay of RelayIDs is registered and has just been seen.
RegistryInit ==
    /\ relayNodes = [id \in RelayIDs |-> [since |-> 0, IsRelay |-> TRUE]]
    /\ rret = NoRelayRet

\* BuildRelayPath returns err and path to the call in progress (or being made).
RelayReturn(minHops, maxHops, E, err, path) ==
    /\ rret' = [minHops |-> minHops, maxHops |-> maxHops, exclude |-> E,
                err |-> err, path |-> path]
    /\ build' = NoBuild

\* rn.BuildRelayPath(minHops, maxHops, excludeNodes) is called and runs up to its
\* selection loop: the filter (the map is ranged over in any order), the length
\* test, the length draw (whose error is dropped, so that a failing rand.Int makes
\* offset.Int64() dereference nil) and the cut to len(available). The calls are made
\* on a registry that holds relays.
EnterBuildRelayPath ==
    /\ ~RelayCrashed
    /\ build.pc = "idle"
    /\ DOMAIN relayNodes # {}
    /\ \E minHops \in 0..MaxRelayHops, maxHops \in 0..MaxRelayHops, E \in SUBSET RelayIDs :
        LET available == Available(relayNodes, E)
            n == Cardinality(available)
        IN IF n < minHops
           THEN RelayReturn(minHops, maxHops, E, NotEnoughRelaysErr, <<>>)
           ELSE \/ /\ maxHops > minHops
                   /\ n >= maxHops
                   /\ RelayReturn(minHops, maxHops, E, NilDerefPanic, <<>>)
                \/ \E l \in RelayPathLengths(n, minHops, maxHops), order \in Perms(available) :
                      /\ build' = [pc |-> "relay", op |-> "BuildRelayPath", exclude |-> E,
                                   nodes |-> order, minLen |-> minHops, maxLen |-> maxHops,
                                   pathLength |-> l, selectedNodes |-> <<>>,
                                   usedIndices |-> {}]
                      /\ rret' = NoRelayRet
    /\ UNCHANGED <<pb, pret, relayNodes, rmsg, pmret>>
    /\ UNCHANGED nonBuildVars

\* One iteration of BuildRelayPath's loop that draws an index with !used[index] (an
\* iteration drawing a used index changes nothing).
RelayDrawIndex ==
    /\ build.pc = "relay"
    /\ Len(build.selectedNodes) < build.pathLength
    /\ \E index \in FreshIndices(Len(build.nodes), build.usedIndices) :
        build' = [build EXCEPT !.usedIndices = @ \cup {index},
                               !.selectedNodes = Append(@, build.nodes[index])]
    /\ UNCHANGED <<pb, pret, relayNodes, rret, rmsg, pmret>>
    /\ UNCHANGED nonBuildVars

\* rand.Int fails in the loop: idx is nil and idx.Int64() panics.
RelayRandFails ==
    /\ build.pc = "relay"
    /\ Len(build.selectedNodes) < build.pathLength
    /\ RelayReturn(build.minLen, build.maxLen, build.exclude, NilDerefPanic, <<>>)
    /\ UNCHANGED <<pb, pret, relayNodes, rmsg, pmret>>
    /\ UNCHANGED nonBuildVars

\* The loop is over: return path, nil.
ReturnRelayPath ==
    /\ build.pc = "relay"
    /\ Len(build.selectedNodes) >= build.pathLength
    /\ RelayReturn(build.minLen, build.maxLen, build.exclude, NilErr, build.selectedNodes)
    /\ UNCHANGED <<pb, pret, relayNodes, rmsg, pmret>>
    /\ UNCHANGED nonBuildVars

\* Both path builders, each run step by step.
BuildNext ==
    \/ CallBuildRandomPath
    \/ CallBuildPathExcluding
    \/ ChooseLength
    \/ DrawIndex
    \/ RandFails
    \/ ReturnPath
    \/ EnterBuildRelayPath
    \/ RelayDrawIndex
    \/ RelayRandFails
    \/ ReturnRelayPath

\* The nodes a relay message can name: the relays and one endpoint.
HopNodes == RelayIDs \cup {"dest"}

\* The relay messages ProcessRelayMessage is given.
RelayMessages ==
    [MessageID : {"id"}, NextHop : HopNodes, FinalDest : HopNodes, HopsLeft : -1..MaxHops,
     Payload : {<<1>>}, Path : UNION {[1..n -> RelayIDs] : n \in 0..MaxPathLen},
     Timestamp : {0}]

NoMsg == [MessageID |-> "", NextHop |-> "", FinalDest |-> "", HopsLeft |-> 0,
          Payload |-> <<>>, Path |-> <<>>, Timestamp |-> 0]
\* What is known of the last ProcessRelayMessage call; first and forwards remember the
\* message as it first arrived and how many calls have returned it for forwarding.
NoProcessRet ==
    [node |-> "", in |-> NoMsg, out |-> NoMsg, final |-> FALSE, err |-> "not called",
     first |-> NoMsg, forwards |-> 0]

\* CreateRelayMessage: errors.New("path cannot be empty")
EmptyRelayPathErr == "path cannot be empty"

\* CreateRelayMessage(finalDest, payload, path): the message and the error.
CreateRelayMessage(finalDest, payload, path) ==
    IF Len(path) = 0
    THEN [msg |-> NoMsg, err |-> EmptyRelayPathErr]
    ELSE [msg |-> [MessageID |-> "id", NextHop |-> path[1], FinalDest |-> finalDest,
                   HopsLeft |-> Len(path), Payload |-> payload, Path |-> path,
                   Timestamp |-> 0],
          err |-> NilErr]

\* Variant of DecrementHops: the hop counter is left as it is.
DecrementHops_Keep(hopsLeft) == hopsLeft

\* ProcessRelayMessage: msg.HopsLeft--
DecrementHops(hopsLeft) == Wrap(hopsLeft - 1)

\* Variant of HopLimitReached: a message with no hop left is still relayed.
HopLimitReached_Negative(hopsLeft) == hopsLeft < 0

\* ProcessRelayMessage: msg.HopsLeft <= 0
HopLimitReached(hopsLeft) == hopsLeft <= 0

\* ProcessRelayMessage: the positions i of the path (from 1 here) with
\* node == currentNodeID && i+1 < len(msg.Path).
HopPositions(path, currentNodeID) ==
    {i \in 1..Len(path) : path[i] = currentNodeID /\ i + 1 <= Len(path)}

\* ProcessRelayMessage: msg.NextHop after the loop over the path.
NextHopAfter(msg, currentNodeID) ==
    LET at == HopPositions(msg.Path, currentNodeID)
    IN IF at = {} THEN msg.NextHop
       ELSE msg.Path[(CHOOSE i \in at : \A j \in at : i <= j) + 1]

\* ProcessRelayMessage(msg, currentNodeID): the message as the call leaves it (it is
\* updated in place), the one returned (NoMsg for nil), the flag and the error.
ProcessRelayMessage(msg, currentNodeID) ==
    IF msg.FinalDest = currentNodeID
    THEN [msg |-> msg, out |-> msg, final |-> TRUE, err |-> NilErr]
    ELSE IF HopLimitReached(msg.HopsLeft)
    THEN [msg |-> msg, out |-> NoMsg, final |-> FALSE, err |-> HopLimitErr]
    ELSE LET relayed == [msg EXCEPT !.HopsLeft = DecrementHops(@),
                                    !.NextHop = NextHopAfter(msg, currentNodeID)]
         IN [msg |-> relayed, out |-> relayed, final |-> FALSE, err |-> NilErr]

\* No relay message is around.
HopIdle ==
    /\ rmsg = NoMsg
    /\ pmret = NoProcessRet

\* Any relay message is about to be processed.
HopInit ==
    /\ rmsg \in RelayMessages
    /\ pmret = NoProcessRet

\* Some node calls ProcessRelayMessage on the message, unless the last call dropped
\* or delivered it.
ProcessAt ==
    /\ rmsg # NoMsg
    /\ pmret.err \in {NilErr, "not called"}
    /\ ~pmret.final
    /\ \E currentNodeID \in HopNodes :
        LET r == ProcessRelayMessage(rmsg, currentNodeID) IN
            /\ rmsg' = r.msg
            /\ pmret' = [node |-> currentNodeID, in |-> rmsg, out |-> r.out,
                         final |-> r.final, err |-> r.err,
                         first |-> IF pmret.err = "not called" THEN rmsg ELSE pmret.first,
                         forwards |-> IF r.err = NilErr /\ ~r.final
                                      THEN pmret.forwards + 1 ELSE pmret.forwards]
    /\ UNCHANGED <<relayNodes, rret>>
    /\ UNCHANGED nonRelayVars

HopNext == ProcessAt

\* The sender has made a message with CreateRelayMessage(finalDest, payload, path)
\* for any destination and any non-empty path of relays.
RouteInit ==
    /\ \E finalDest \in HopNodes, path \in UNION {[1..n -> RelayIDs] : n \in 1..MaxPathLen} :
        rmsg = CreateRelayMessage(finalDest, <<1>>, path).msg
    /\ pmret = NoProcessRet

\* The message is handed to its NextHop (path[0] at first), which calls
\* ProcessRelayMessage on it with its own ID, unless the last call dropped or
\* delivered it.
HandToNextHop ==
    /\ rmsg # NoMsg
    /\ pmret.err \in {NilErr, "not called"}
    /\ ~pmret.final
    /\ LET r == ProcessRelayMessage(rmsg, rmsg.NextHop) IN
        /\ rmsg' = r.msg
        /\ pmret' = [node |-> rmsg.NextHop, in |-> rmsg, out |-> r.out,
                     final |-> r.final, err |-> r.err,
                     first |-> IF pmret.err = "not called" THEN rmsg ELSE pmret.first,
                     forwards |-> IF r.err = NilErr /\ ~r.final
                                  THEN pmret.forwards + 1 ELSE pmret.forwards]
    /\ UNCHANGED <<relayNodes, rret>>
    /\ UNCHANGED nonRelayVars

RouteNext == HandToNextHop

(***************************************************************************)
(* Onion layers (crypto/crypto.go) and the demonstration node              *)
(* (cmd/hashmouth.go)                                                      *)
(***************************************************************************)
\* chacha20poly1305.KeySize, aead.NonceSize() and the length of the tag Seal appends.
KeySize == 32
NonceSize == 12
Overhead == 16

OnionNodes == {"NodeA", "NodeB"}

\* The 32-byte keys GenerateSymmetricKey returns, and the nil slice a lookup in
\* nodeKeys gives for an ID that is not in the map.
SymKeys == {"k1", "k2"}
NilKey == "no key"
KeyLen(key) == IF key = NilKey THEN 0 ELSE KeySize

\* nodeKeys[id]
Lookup(keys, id) == IF id \in DOMAIN keys THEN keys[id] ELSE NilKey

BadKeyErr == "chacha20poly1305: bad key length"
MalformedErr == "invalid payload"
AuthErr == "chacha20poly1305: message authentication failed"
IndexPanic == "panic: index out of range"

\* Bytes are terms: a byte given in the clear [b], byte i of the ChaCha20 encryption of
\* a plaintext under a key and a nonce [k, n, i, p], byte j of the Poly1305 tag of a
\* ciphertext under a key and a nonce [mk, mn, mc, j], and a byte changed in
\* transit [flip]. The first byte of a tag carries the ciphertext the tag is of.
PlainByte(v) == [b |-> v]
PlainValues == {0, 1}
NonceValues == {0, 1}
OnionData == UNION {[1..n -> {PlainByte(v) : v \in PlainValues}] : n \in 0..MaxPlainLen}
Nonces == {[i \in 1..NonceSize |-> PlainByte(v)] : v \in NonceValues}

EncryptBytes(key, nonce, plain) ==
    [i \in 1..Len(plain) |-> [k |-> key, n |-> nonce, i |-> i, p |-> plain[i]]]

DecryptByte(key, nonce, i, c) ==
    IF DOMAIN c = {"k", "n", "i", "p"} /\ c.k = key /\ c.n = nonce /\ c.i = i
    THEN c.p
    ELSE [g |-> <<key, nonce, i, c>>]

MacTag(key, nonce, ct) ==
    [j \in 1..Overhead |->
        [mk |-> key, mn |-> nonce, mc |-> IF j = 1 THEN ct ELSE <<>>, j |-> j]]

\* Variant of TagVerifies: the tag is accepted whichever key it was made with.
TagVerifies_AnyKey(key, nonce, ct, tag) == \E other \in SymKeys : tag = MacTag(other, nonce, ct)

\* aead.Open: the tag is the one of the ciphertext under the key and the nonce.
TagVerifies(key, nonce, ct, tag) == tag = MacTag(key, nonce, ct)

\* aead.Seal(nonce, nonce, plain, nil) without the nonce it is appended to.
Seal(key, nonce, plain) ==
    LET ct == EncryptBytes(key, nonce, plain) IN ct \o MacTag(key, nonce, ct)

\* aead.Open(nil, nonce, ciphertext, nil): the plaintext (nil on failure) and the error.
Open(key, nonce, ciphertext) ==
    IF Len(ciphertext) < Overhead
    THEN [plain |-> <<>>, err |-> AuthErr]
    ELSE LET n == Len(ciphertext) - Overhead
             ct == SubSeq(ciphertext, 1, n)
             tag == SubSeq(ciphertext, n + 1, Len(ciphertext))
         IN IF TagVerifies(key, nonce, ct, tag)
            THEN [plain |-> [i \in 1..n |-> DecryptByte(key, nonce, i, ct[i])], err |-> NilErr]
            ELSE [plain |-> <<>>, err |-> AuthErr]

\* OnionPacket.Serialize and Deserialize
Serialize(pkt) == pkt.Payload
Deserialize(data) == [Payload |-> data]

\* CreateOnionPacket(plain, key): the packets (nil: no payload) and errors it can
\* return, one for each nonce the random source can deliver.
CreateOnionPacket(plain, key) ==
    IF KeyLen(key) # KeySize
    THEN {[pkt |-> Deserialize(<<>>), err |-> BadKeyErr]}
    ELSE {[pkt |-> Deserialize(<<>>), err |-> RandErr]}
         \cup {[pkt |-> Deserialize(nonce \o Seal(key, nonce, plain)), err |-> NilErr] :
                  nonce \in Nonces}

\* Variant of TooShort: a packet without room for the tag is malformed as well.
TooShort_ForTag(n) == n < NonceSize + Overhead

\* PeelOnion: len(pkt.Payload) < aead.NonceSize()
TooShort(n) == n < NonceSize

\* PeelOnion(pkt, key): the plaintext (nil on failure) and the error.
PeelOnion(pkt, key) ==
    IF KeyLen(key) # KeySize
    THEN [plain |-> <<>>, err |-> BadKeyErr]
    ELSE IF TooShort(Len(pkt.Payload))
    THEN [plain |-> <<>>, err |-> MalformedErr]
    ELSE Open(key, SubSeq(pkt.Payload, 1, NonceSize),
              SubSeq(pkt.Payload, NonceSize + 1, Len(pkt.Payload)))

\* Variant of LayerOrder: the first node's layer is made first.
LayerOrder_Forward(path) == [j \in 1..Len(path) |-> j]

\* sendOnion: for i := len(path) - 1; i >= 0; i-- (positions from 1 here)
LayerOrder(path) == [j \in 1..Len(path) |-> Len(path) + 1 - j]

\* sendOnion's loop from its step j on: what current can become, or the error
\* mustCreateOnionPacket panics with.
RECURSIVE WrapLayers(_, _, _, _)
WrapLayers(keys, path, j, current) ==
    IF j > Len(path)
    THEN {[current |-> current, panic |-> ""]}
    ELSE UNION {
        IF r.err # NilErr
        THEN {[current |-> <<>>, panic |-> r.err]}
        ELSE WrapLayers(keys, path, j + 1, Serialize(r.pkt)) :
        r \in CreateOnionPacket(current, Lookup(keys, path[LayerOrder(path)[j]]))}

\* sendOnion(node, path, data): the raw message, the peer it is sent to ("" when
\* node.Peers does not have path[0]) and the panic, if any.
SendOnion(keys, known, path, data) ==
    {IF w.panic # "" THEN [current |-> <<>>, to |-> "", panic |-> w.panic]
     ELSE IF Len(path) = 0 THEN [current |-> <<>>, to |-> "", panic |-> IndexPanic]
     ELSE [current |-> w.current, to |-> IF path[1] \in known THEN path[1] ELSE "",
           panic |-> ""] :
     w \in WrapLayers(keys, path, 1, data)}

OnionPaths == UNION {[1..n -> OnionNodes] : n \in 0..MaxLayers}
KeyMaps == UNION {[ids -> SymKeys] : ids \in SUBSET OnionNodes}
NoKeys == [id \in {} |-> NilKey]
NoWire == [full |-> FALSE, data |-> <<>>]
NoSend == [path |-> <<>>, data |-> <<>>, current |-> <<>>, to |-> "", panic |-> "not called"]
NoPeel == [node |-> "", key |-> NilKey, pkt |-> <<>>, plain |-> <<>>, err |-> "not called",
           intact |-> FALSE, relayed |-> FALSE]

\* The raw messages anyone can write to a node's listener.
RawLens == {0, NonceSize - 1, NonceSize, NonceSize + Overhead - 1, NonceSize + Overhead}
RawMessages == {[i \in 1..n |-> PlainByte(0)] : n \in RawLens}

OnionCrashed == sent.panic \notin {"", "not called"}

\* Nothing has been sent or received yet: one raw message is followed on its way.
OnionFresh ==
    /\ sent = NoSend
    /\ ~wire.full
    /\ oret = NoPeel

\* No node is running.
OnionIdle ==
    /\ nodeKeys = NoKeys
    /\ peers = {}
    /\ wire = NoWire
    /\ sent = NoSend
    /\ tried = <<>>
    /\ intact = FALSE
    /\ oret = NoPeel

\* Nodes have been started: those in the key map have generated their keys; for the
\* others GenerateSymmetricKey has failed and left nil, main discarding the error.
OnionInit ==
    /\ nodeKeys \in KeyMaps
    /\ peers = {}
    /\ wire = NoWire
    /\ sent = NoSend
    /\ tried = <<>>
    /\ intact = FALSE
    /\ oret = NoPeel

\* P2PNode.ConnectPeer(id, addr)
ConnectPeer ==
    /\ OnionFresh
    /\ \E id \in OnionNodes : peers' = peers \cup {id}
    /\ UNCHANGED <<nodeKeys, wire, sent, tried, intact, oret>>
    /\ UNCHANGED nonOnionVars

\* sendOnion(node, path, data), with SendMessage reaching the peer or failing to connect.
CallSendOnion ==
    /\ OnionFresh
    /\ \E path \in OnionPaths, data \in OnionData :
        \E r \in SendOnion(nodeKeys, peers, path, data), connected \in BOOLEAN :
            /\ sent' = [path |-> path, data |-> data, current |-> r.current, to |-> r.to,
                        panic |-> r.panic]
            /\ IF r.to # "" /\ connected
               THEN wire' = [full |-> TRUE, data |-> r.current] /\ tried' = <<>> /\ intact' = TRUE
               ELSE UNCHANGED <<wire, tried, intact>>
    /\ UNCHANGED <<nodeKeys, peers, oret>>
    /\ UNCHANGED nonOnionVars

\* Anyone writes any bytes to a node's listener.
Inject ==
    /\ OnionFresh
    /\ \E raw \in RawMessages : wire' = [full |-> TRUE, data |-> raw]
    /\ tried' = <<>>
    /\ intact' = FALSE
    /\ UNCHANGED <<nodeKeys, peers, sent, oret>>
    /\ UNCHANGED nonOnionVars

\* A byte of the raw message is changed in transit.
Alter ==
    /\ ~OnionCrashed
    /\ wire.full
    /\ intact
    /\ \E i \in 1..Len(wire.data) : wire' = [wire EXCEPT !.data[i] = [flip |-> @]]
    /\ intact' = FALSE
    /\ UNCHANGED <<nodeKeys, peers, sent, tried, oret>>
    /\ UNCHANGED nonOnionVars

\* main's receive loop at some node: the raw message is deserialized and peeled with
\* the key the node has for its own ID; the plaintext is printed, or the error.
Receive ==
    /\ ~OnionCrashed
    /\ wire.full
    /\ Len(tried) <= MaxLayers
    /\ \E id \in OnionNodes :
        LET key == Lookup(nodeKeys, id)
            r == PeelOnion(Deserialize(wire.data), key)
        IN /\ oret' = [node |-> id, key |-> key, pkt |-> wire.data, plain |-> r.plain,
                       err |-> r.err, intact |-> intact, relayed |-> FALSE]
           /\ tried' = Append(tried, key)
    /\ wire' = NoWire
    /\ UNCHANGED <<nodeKeys, peers, sent, intact>>
    /\ UNCHANGED nonOnionVars

\* The plaintext a node has peeled is passed on to a next node as the next raw message.
Relay ==
    /\ ~OnionCrashed
    /\ ~wire.full
    /\ oret.err = NilErr
    /\ ~oret.relayed
    /\ wire' = [full |-> TRUE, data |-> oret.plain]
    /\ oret' = [oret EXCEPT !.relayed = TRUE]
    /\ UNCHANGED <<nodeKeys, peers, sent, tried, intact>>
    /\ UNCHANGED nonOnionVars

OnionNext ==
    \/ ConnectPeer
    \/ CallSendOnion
    \/ Inject
    \/ Alter
    \/ Receive
    \/ Relay

(***************************************************************************)
(* Packet envelope (message/packet.go)                                     *)
(***************************************************************************)
\* Go strings are sequences of bytes: here of the letters a and b, the bytes 0xFF and
\* 0xFE, which are not valid UTF-8, and the encoding of the replacement rune U+FFFD.
InvalidBytes == {"xFF", "xFE"}
ReplacementRune == "uFFFD"
Senders == {<<"a">>, <<"xFF">>, <<"xFE">>}
Recipients == {<<"a">>, <<"b">>}
PacketTypes == {0, 1}

\* []byte values: nil, or the bytes.
NilSlice == [nil |-> TRUE, data |-> <<>>]
Slice(data) == [nil |-> FALSE, data |-> data]
ByteSlices == {NilSlice, Slice(<<1>>)}

\* int64 seconds and time.Duration, at the widths of the model: Unix times lie in
\* -SecLimit..SecLimit-1 and wrap around, durations in -DurLimit..DurLimit.
Seconds == (0 - SecLimit)..(SecLimit - 1)
Durations == (0 - DurLimit)..DurLimit
WrapSec(x) == ((x + SecLimit) % (2 * SecLimit)) - SecLimit

\* time.Unix keeps the seconds since year 1: Unix seconds plus unixToInternal.
UnixToInternal == 2

\* Ed25519 keys: the pairs, and a key of the wrong size for each kind.
PrivateKeys == {"sk1", "sk2"}
PublicKey(priv) == IF priv = "sk1" THEN "pk1" ELSE "pk2"
PublicKeys == {PublicKey(priv) : priv \in PrivateKeys}
ShortPrivateKey == "short private key"
ShortPublicKey == "short public key"

BadPrivateKeyErr == "invalid private key size"
BadPublicKeyErr == "invalid public key size"
UnsignedErr == "packet is not signed"
BadSignatureErr == "signature verification failed"

\* ed25519.Sign(privateKey, data), and the empty signature of an unsigned packet.
Ed25519Sign(priv, data) == [signer |-> priv, data |-> data]
NoSignature == [signer |-> "", data |-> [none |-> TRUE]]

\* ed25519.Verify(publicKey, data, sig)
Ed25519Verify(pub, data, sig) ==
    \E priv \in PrivateKeys : PublicKey(priv) = pub /\ sig = Ed25519Sign(priv, data)

\* json.Marshal of a string: bytes that are not valid UTF-8 become U+FFFD.
JSONString(str) ==
    [i \in 1..Len(str) |-> IF str[i] \in InvalidBytes THEN ReplacementRune ELSE str[i]]

\* json.Marshal of a []byte: null for nil, the base64 text of the bytes otherwise.
JSONBytes(slice) == IF slice.nil THEN [null |-> TRUE] ELSE [base64 |-> slice.data]

\* Packet.signableData: the JSON text of the packet with a nil signature.
signableData(p) ==
    [type |-> p.Type, sender |-> JSONString(p.Sender), recipient |-> JSONString(p.Recipient),
     timestamp |-> p.Timestamp, nonce |-> JSONBytes(p.Nonce), payload |-> JSONBytes(p.Payload),
     signature |-> [null |-> TRUE]]

\* Packet.Sign(privateKey): the packet afterwards and the error.
Sign(p, priv) ==
    IF priv \notin PrivateKeys
    THEN [pkt |-> p, err |-> BadPrivateKeyErr]
    ELSE [pkt |-> [p EXCEPT !.Signature = Ed25519Sign(priv, signableData(p))], err |-> NilErr]

\* Packet.Verify(publicKey): the error.
Verify(p, pub) ==
    IF pub \notin PublicKeys THEN BadPublicKeyErr
    ELSE IF p.Signature = NoSignature THEN UnsignedErr
    ELSE IF ~Ed25519Verify(pub, signableData(p), p.Signature) THEN BadSignatureErr
    ELSE NilErr

\* time.Since(t) for a time t without monotonic reading: Now().Sub(t), which gives the
\* largest or smallest Duration when the difference does not fit.
Since(t, clock) ==
    LET d == (clock + UnixToInternal) - t
    IN IF d > DurLimit THEN DurLimit ELSE IF d < 0 - DurLimit THEN 0 - DurLimit ELSE d

\* Packet.IsExpired(maxAge) called when the wall clock shows clock.
IsExpired(p, maxAge, clock) ==
    LET packetTime == WrapSec(p.Timestamp + UnixToInternal)
    IN Since(packetTime, clock) > maxAge

Envelopes ==
    [Type : PacketTypes, Sender : Senders, Recipient : Recipients, Timestamp : {0, 1},
     Nonce : ByteSlices, Payload : ByteSlices, Signature : {NoSignature}]

\* One packet for each timestamp an int64 can hold.
TimedPackets ==
    [Type : {0}, Sender : {<<"a">>}, Recipient : {<<"b">>}, Timestamp : Seconds,
     Nonce : {NilSlice}, Payload : {Slice(<<1>>)}, Signature : {NoSignature}]

\* The values a field of a packet can be set to.
FieldValues(field) ==
    CASE field = "Type" -> PacketTypes
      [] field = "Sender" -> Senders
      [] field = "Recipient" -> Recipients
      [] field = "Timestamp" -> {0, 1}
      [] field = "Nonce" -> ByteSlices
      [] field = "Payload" -> ByteSlices

SignableFields == {"Type", "Sender", "Recipient", "Timestamp", "Nonce", "Payload"}

NoPacketValue ==
    [Type |-> 0, Sender |-> <<>>, Recipient |-> <<>>, Timestamp |-> 0,
     Nonce |-> NilSlice, Payload |-> NilSlice, Signature |-> NoSignature]
NotSigned == [pkt |-> NoPacketValue, key |-> ""]
NoPacketCall ==
    [op |-> "", key |-> "", err |-> "not called", maxAge |-> 0, at |-> 0, expired |-> FALSE]

\* No packet is around.
PacketIdle ==
    /\ packet = NoPacketValue
    /\ now = 0
    /\ signedAs = NotSigned
    /\ kret = NoPacketCall

\* Any unsigned packet.
PacketInit ==
    /\ packet \in Envelopes
    /\ now = 0
    /\ signedAs = NotSigned
    /\ kret = NoPacketCall

\* An unsigned packet with any timestamp.
ExpiryInit ==
    /\ packet \in TimedPackets
    /\ now = 0
    /\ signedAs = NotSigned
    /\ kret = NoPacketCall

\* p.Sign(privateKey), on a packet that is unsigned or as Sign left it
CallSign ==
    /\ signedAs = NotSigned \/ packet = signedAs.pkt
    /\ \E priv \in PrivateKeys \cup {ShortPrivateKey} :
        LET r == Sign(packet, priv) IN
            /\ packet' = r.pkt
            /\ kret' = [NoPacketCall EXCEPT !.op = "Sign", !.key = priv, !.err = r.err]
            /\ signedAs' = IF r.err = NilErr THEN [pkt |-> r.pkt, key |-> priv] ELSE signedAs
    /\ UNCHANGED now
    /\ UNCHANGED nonPacketVars

\* A field of the signed packet is set to another value.
SetField ==
    /\ signedAs # NotSigned
    /\ packet = signedAs.pkt
    /\ \E field \in SignableFields : \E v \in FieldValues(field) :
        /\ v # packet[field]
        /\ packet' = [packet EXCEPT ![field] = v]
    /\ kret' = [NoPacketCall EXCEPT !.op = "SetField", !.err = NilErr]
    /\ UNCHANGED <<now, signedAs>>
    /\ UNCHANGED nonPacketVars

\* p.Verify(publicKey)
CallVerify ==
    /\ \E pub \in PublicKeys \cup {ShortPublicKey} :
        kret' = [NoPacketCall EXCEPT !.op = "Verify", !.key = pub, !.err = Verify(packet, pub)]
    /\ UNCHANGED <<packet, now, signedAs>>
    /\ UNCHANGED nonPacketVars

\* p.IsExpired(maxAge)
CallIsExpired ==
    /\ \E maxAge \in Durations :
        kret' = [NoPacketCall EXCEPT !.op = "IsExpired", !.err = NilErr, !.maxAge = maxAge,
                                     !.at = now, !.expired = IsExpired(packet, maxAge, now)]
    /\ UNCHANGED <<packet, now, signedAs>>
    /\ UNCHANGED nonPacketVars

\* A second passes.
PacketElapse ==
    /\ now < MaxNow
    /\ now' = now + 1
    /\ UNCHANGED <<packet, signedAs, kret>>
    /\ UNCHANGED nonPacketVars

PacketNext ==
    \/ CallSign
    \/ SetField
    \/ CallVerify
    \/ CallIsExpired
    \/ PacketElapse

(***************************************************************************)
(* Shared maps: message/chunk.go, network/node.go, cmd/hashmouth.go        *)
(***************************************************************************)
Goroutines == {"g1", "g2", "g3"}

\* The calls on the assembler: AddChunk, IsComplete, Assemble.
AssemblerCalls == {"AddChunk", "IsComplete", "Assemble"}

\* The calls that touch P2PNode.Peers.
PeerCalls == {"ConnectPeer", "sendOnion"}

NoGoroutine == "none"
NotInCall == "idle"
NoMutex == "no mutex"

\* The map a call reads or writes: ca.chunks or node.Peers.
MapOf(op) == IF op \in AssemblerCalls THEN "ca.chunks" ELSE "node.Peers"

\* AddChunk inserts into ca.chunks, Assemble deletes from it, ConnectPeer inserts
\* into n.Peers; IsComplete and sendOnion only read.
WritesMap(op) == op \in {"AddChunk", "Assemble", "ConnectPeer"}

\* The mutex a call holds around its map access: ConnectPeer locks n.mutex;
\* ChunkAssembler has no mutex and sendOnion locks none.
MutexOf(op) == IF op = "ConnectPeer" THEN "node.mutex" ELSE NoMutex

\* Goroutine g, about to make call op, finds another goroutine inside a call on the
\* same map, one of the two writing it.
Races(g, op) ==
    \E h \in Goroutines \ {g} :
        /\ calls[h] # NotInCall
        /\ MapOf(calls[h]) = MapOf(op)
        /\ WritesMap(op) \/ WritesMap(calls[h])

AccessInit ==
    /\ calls = [g \in Goroutines |-> NotInCall]
    /\ mutexHolder = NoGoroutine
    /\ fatal = FALSE

\* A goroutine enters a call and starts on the map, after locking the call's mutex
\* if it has one. On a racing access the runtime may or may not detect the race
\* and throw ("fatal error: concurrent map writes").
EnterCall ==
    /\ ~fatal
    /\ \E g \in Goroutines, op \in AssemblerCalls \cup PeerCalls :
        /\ calls[g] = NotInCall
        /\ IF MutexOf(op) = NoMutex
           THEN UNCHANGED mutexHolder
           ELSE /\ mutexHolder = NoGoroutine
                /\ mutexHolder' = g
        /\ calls' = [calls EXCEPT ![g] = op]
        /\ fatal' \in (IF Races(g, op) THEN BOOLEAN ELSE {FALSE})
    /\ UNCHANGED nonAccessVars

\* A goroutine returns from its call, unlocking the mutex it holds.
LeaveCall ==
    /\ ~fatal
    /\ \E g \in Goroutines :
        /\ calls[g] # NotInCall
        /\ calls' = [calls EXCEPT ![g] = NotInCall]
        /\ mutexHolder' = IF mutexHolder = g THEN NoGoroutine ELSE mutexHolder
    /\ UNCHANGED fatal
    /\ UNCHANGED nonAccessVars

AccessNext ==
    \/ EnterCall
    \/ LeaveCall

(***************************************************************************)
(* routing/mixnode.go: MixNetwork                                          *)
(***************************************************************************)
\* The *MixNode values handed to AddNode; two of them carry the same ID.
MixNodes == {"node1", "node2", "node3"}

MixNodeID(node) == IF node = "node3" THEN "mixB" ELSE "mixA"

MixNodeIDs == {"mixA", "mixB", "mixC"}

NodeExistsErr == "node already exists"
NodeNotFoundErr == "node not found"
CloseClosedPanic == "panic: close of closed channel"

NoNetworkCall == [op |-> "none", node |-> "", id |-> "", err |-> NilErr, before |-> <<>>]

NetworkInit ==
    /\ netNodes = <<>>
    /\ stopClosed = [n \in MixNodes |-> FALSE]
    /\ starts = [n \in MixNodes |-> 0]
    /\ netret = NoNetworkCall

\* A close of a closed channel has panicked inside RemoveNode.
NetworkCrashed == netret.err = CloseClosedPanic

\* MixNetwork.AddNode(node), under mn.mu: fails on an ID already present, else
\* stores the node and calls node.Start().
AddNode ==
    /\ ~NetworkCrashed
    /\ \E node \in MixNodes :
        /\ starts[node] < MaxStarts
        /\ IF MixNodeID(node) \in DOMAIN netNodes
           THEN /\ netret' = [op |-> "AddNode", node |-> node, id |-> MixNodeID(node),
                              err |-> NodeExistsErr, before |-> netNodes]
                /\ UNCHANGED <<netNodes, starts>>
           ELSE /\ netNodes' = MapPut(netNodes, MixNodeID(node), node)
                /\ starts' = [starts EXCEPT ![node] = @ + 1]
                /\ netret' = [op |-> "AddNode", node |-> node, id |-> MixNodeID(node),
                              err |-> NilErr, before |-> netNodes]
    /\ UNCHANGED stopClosed
    /\ UNCHANGED nonNetworkVars

\* MixNetwork.RemoveNode(nodeID), under mn.mu: fails on an ID not present, else
\* calls node.Stop(), which closes stopCh and panics if it is closed already, and
\* deletes the entry.
RemoveNode ==
    /\ ~NetworkCrashed
    /\ \E id \in MixNodeIDs :
        IF id \notin DOMAIN netNodes
        THEN /\ netret' = [op |-> "RemoveNode", node |-> "", id |-> id,
                           err |-> NodeNotFoundErr, before |-> netNodes]
             /\ UNCHANGED <<netNodes, stopClosed>>
        ELSE IF stopClosed[netNodes[id]]
        THEN /\ netret' = [op |-> "RemoveNode", node |-> netNodes[id], id |-> id,
                           err |-> CloseClosedPanic, before |-> netNodes]
             /\ UNCHANGED <<netNodes, stopClosed>>
        ELSE /\ stopClosed' = [stopClosed EXCEPT ![netNodes[id]] = TRUE]
             /\ netNodes' = MapDelete(netNodes, id)
             /\ netret' = [op |-> "RemoveNode", node |-> netNodes[id], id |-> id,
                           err |-> NilErr, before |-> netNodes]
    /\ UNCHANGED starts
    /\ UNCHANGED nonNetworkVars

NetworkNext ==
    \/ AddNode
    \/ RemoveNode

\* No goroutine is inside a call on a shared map and the mix network is empty.
SharedIdle ==
    /\ AccessInit
    /\ NetworkInit

\* The functions ProcessRelayMessage calls.
ProcessRelayMessageCalls == {"log.Printf", "errors.New"}

(***************************************************************************)
(* Ratchet sessions (crypto/keys.go)                                       *)
(***************************************************************************)
Peers == {"A", "B"}

\* The private keys rand.Read can deliver.
Scalars == {"x", "y", "z"}

\* curve25519.X25519(priv, curve25519.Basepoint)
X25519Base(priv) == [pub |-> priv]

\* What NewRatchetSession can be given: a public key, a slice that is not 32 bytes
\* long, and a point of low order, which X25519 refuses.
ShortPeerPub == [short |-> TRUE]
LowOrderPeerPub == [lowOrder |-> TRUE]
PeerPubs == {X25519Base(priv) : priv \in Scalars} \cup {ShortPeerPub, LowOrderPeerPub}

\* curve25519.X25519(priv, peerPub) for a public key peerPub: the Diffie-Hellman secret
\* of the two private keys.
X25519(priv, peerPub) == [dh |-> {priv, peerPub.pub}]

BadPeerPubErr == "invalid peer public key"
LowOrderErr == "bad input point: low order point"

\* a XOR b on the n lowest bits
RECURSIVE XorBits(_, _, _)
XorBits(a, b, n) ==
    IF n = 0 THEN 0
    ELSE ((a + b) % 2) + 2 * XorBits(a \div 2, b \div 2, n - 1)

\* A 32-byte key made from a secret: each byte of the secret XORed with mask.
KeyOf(secret, mask) == [secret |-> secret, mask |-> mask]

NoSession == [DHPrivate |-> "", DHPublic |-> [none |-> TRUE], PeerPub |-> [none |-> TRUE],
              RootKey |-> [none |-> TRUE], ChainKey |-> [none |-> TRUE]]

\* NewRatchetSession(peerPub): the sessions (NoSession for nil) and errors it can return.
NewRatchetSession(peerPub) ==
    {[session |-> NoSession, err |-> RandErr]}
    \cup {IF peerPub = ShortPeerPub THEN [session |-> NoSession, err |-> BadPeerPubErr]
          ELSE IF peerPub = LowOrderPeerPub THEN [session |-> NoSession, err |-> LowOrderErr]
          ELSE LET shared == X25519(priv, peerPub)
               IN [session |-> [DHPrivate |-> priv, DHPublic |-> X25519Base(priv),
                                PeerPub |-> peerPub, RootKey |-> KeyOf(shared, 0),
                                ChainKey |-> KeyOf(shared, 0)],
                   err |-> NilErr] :
          priv \in Scalars}

\* RatchetStep: newKey[i] ^= 0x55 for every byte of the chain key
StepKey(key) == KeyOf(key.secret, XorBits(key.mask, 85, 8))

\* r.RatchetStep(): the session afterwards.
RatchetStep(r) == [r EXCEPT !.ChainKey = StepKey(r.ChainKey)]

\* r.GetNextKey(): the session afterwards and the key returned.
GetNextKey(r) ==
    LET stepped == RatchetStep(r) IN [session |-> stepped, key |-> stepped.ChainKey]

\* No session is around.
RatchetIdle ==
    /\ peerKey = ""
    /\ sessions = [side \in Peers |-> NoSession]
    /\ chains = [side \in Peers |-> <<>>]
    /\ issued = [side \in Peers |-> <<>>]
    /\ nret = "not called"

\* Peer B has published the public key of some key pair.
RatchetInit ==
    /\ peerKey \in Scalars
    /\ sessions = [side \in Peers |-> NoSession]
    /\ chains = [side \in Peers |-> <<>>]
    /\ issued = [side \in Peers |-> <<>>]
    /\ nret = "not called"

\* A peer without a session calls NewRatchetSession(peerPub).
CallNewRatchetSession ==
    /\ \E side \in Peers, peerPub \in PeerPubs :
        /\ sessions[side] = NoSession
        /\ \E r \in NewRatchetSession(peerPub) :
            /\ nret' = r.err
            /\ sessions' = [sessions EXCEPT ![side] = r.session]
            /\ chains' = IF r.err = NilErr
                         THEN [chains EXCEPT ![side] = <<r.session.ChainKey>>]
                         ELSE chains
    /\ UNCHANGED <<peerKey, issued>>
    /\ UNCHANGED nonRatchetVars

\* A peer calls RatchetStep on its session.
CallRatchetStep ==
    /\ \E side \in Peers :
        /\ sessions[side] # NoSession
        /\ Len(chains[side]) <= MaxSteps
        /\ sessions' = [sessions EXCEPT ![side] = RatchetStep(@)]
        /\ chains' = [chains EXCEPT ![side] = Append(@, RatchetStep(sessions[side]).ChainKey)]
    /\ UNCHANGED <<peerKey, issued, nret>>
    /\ UNCHANGED nonRatchetVars

\* A peer calls GetNextKey on its session.
CallGetNextKey ==
    /\ \E side \in Peers :
        /\ sessions[side] # NoSession
        /\ Len(chains[side]) <= MaxSteps
        /\ LET r == GetNextKey(sessions[side]) IN
            /\ sessions' = [sessions EXCEPT ![side] = r.session]
            /\ chains' = [chains EXCEPT ![side] = Append(@, r.session.ChainKey)]
            /\ issued' = [issued EXCEPT ![side] = Append(@, r.key)]
    /\ UNCHANGED <<peerKey, nret>>
    /\ UNCHANGED nonRatchetVars

RatchetNext ==
    \/ CallNewRatchetSession
    \/ CallRatchetStep
    \/ CallGetNextKey

\* No cryptographic state is around.
CryptoIdle ==
    /\ OnionIdle
    /\ PacketIdle
    /\ RatchetIdle

(***************************************************************************)
(* Specifications                                                          *)
(***************************************************************************)
Init ==
    /\ MixInit
    /\ ChunkInit
    /\ msgs = DefaultMsgs
    /\ PathIdle
    /\ RelayInit
    /\ SharedIdle
    /\ HopIdle
    /\ CryptoIdle

\* A path builder made with any arguments.
InitPath ==
    /\ MixInit
    /\ ChunkInit
    /\ msgs = DefaultMsgs
    /\ PathInit
    /\ RelayInit
    /\ SharedIdle
    /\ HopIdle
    /\ CryptoIdle

\* Any relay message arrives at a node.
InitHop ==
    /\ MixInit
    /\ ChunkInit
    /\ msgs = DefaultMsgs
    /\ PathIdle
    /\ RelayInit
    /\ SharedIdle
    /\ HopInit
    /\ CryptoIdle

\* A relay message as its sender made it.
InitRoute ==
    /\ MixInit
    /\ ChunkInit
    /\ msgs = DefaultMsgs
    /\ PathIdle
    /\ RelayInit
    /\ SharedIdle
    /\ RouteInit
    /\ CryptoIdle

\* A path builder made with any arguments beside an empty relay registry, or a
\* registry holding every relay beside no path builder.
InitBuild ==
    /\ MixInit
    /\ ChunkInit
    /\ msgs = DefaultMsgs
    /\ \/ PathInit /\ RelayInit
       \/ PathIdle /\ RegistryInit
    /\ SharedIdle
    /\ HopIdle
    /\ CryptoIdle

\* Nodes with any keys exchange onions.
InitOnion ==
    /\ MixInit
    /\ ChunkInit
    /\ msgs = DefaultMsgs
    /\ PathIdle
    /\ RelayInit
    /\ SharedIdle
    /\ HopIdle
    /\ OnionInit
    /\ PacketIdle
    /\ RatchetIdle

\* Two peers about to make their sessions.
InitRatchet ==
    /\ MixInit
    /\ ChunkInit
    /\ msgs = DefaultMsgs
    /\ PathIdle
    /\ RelayInit
    /\ SharedIdle
    /\ HopIdle
    /\ OnionIdle
    /\ PacketIdle
    /\ RatchetInit

\* Any unsigned packet is signed, changed, verified and checked for its age.
InitPacket ==
    /\ MixInit
    /\ ChunkInit
    /\ msgs = DefaultMsgs
    /\ PathIdle
    /\ RelayInit
    /\ SharedIdle
    /\ HopIdle
    /\ OnionIdle
    /\ PacketInit
    /\ RatchetIdle

\* The same for a packet with any timestamp.
InitExpiry ==
    /\ MixInit
    /\ ChunkInit
    /\ msgs = DefaultMsgs
    /\ PathIdle
    /\ RelayInit
    /\ SharedIdle
    /\ HopIdle
    /\ OnionIdle
    /\ ExpiryInit
    /\ RatchetIdle

\* Message m1 is any payload split with any chunk size; m2 is a short message
\* split into one-byte chunks.
InitSplit ==
    /\ MixInit
    /\ ChunkInit
    /\ PathIdle
    /\ RelayInit
    /\ SharedIdle
    /\ HopIdle
    /\ CryptoIdle
    /\ \E d \in Payloads, size \in ChunkSizes, o \in OtherPayloads :
        msgs = [id \in MessageIDs |->
                  IF id = "m1" THEN [data |-> d, size |-> size]
                  ELSE [data |-> o, size |-> 1]]


Next == MixNext

\* The mix node, with time passing freely.
Spec == Init /\ [][Next]_vars

\* The mix node running without processing time, packet ages observed.
TimedSpec == Init /\ [][TimedNext]_vars

\* The Go scheduler runs every goroutine that can take a step, a select whose stop
\* case is ready eventually takes it, and time passes.
NodeFairness ==
    /\ WF_vars(AdvanceTime)
    /\ WF_vars(BatchTick)
    /\ WF_vars(BatchSend)
    /\ WF_vars(BatchSendStop)
    /\ WF_vars(BatchStop)
    /\ WF_vars(DelayerRecv)
    /\ WF_vars(DelayerSend)
    /\ WF_vars(DelayerStop)

\* The mix node under fair scheduling, its output continually read.
FairSpec == Spec /\ NodeFairness /\ WF_vars(ReadOutput)

\* The mix node under fair scheduling, whatever the reader of its output does.
UnreadFairSpec == Spec /\ NodeFairness

\* The assembler fed with arbitrary chunks.
ChunkSpec == Init /\ [][ChunkNext]_vars

\* The relay registry with paths built from it while time passes.
RelaySpec == Init /\ [][RelayNext]_vars

\* A relay message processed at any nodes in turn.
HopSpec == InitHop /\ [][HopNext]_vars

\* Onions sent, received and peeled by nodes with any keys.
OnionSpec == InitOnion /\ [][OnionNext]_vars

\* Calls on one packet while time passes.
PacketSpec == InitPacket /\ [][PacketNext]_vars

\* Calls on one packet of any timestamp while time passes.
ExpirySpec == InitExpiry /\ [][PacketNext]_vars

\* Two peers making and stepping their ratchet sessions.
RatchetSpec == InitRatchet /\ [][RatchetNext]_vars

\* Paths built with one path builder.
PathSpec == InitPath /\ [][PathNext]_vars

\* Paths built with one path builder, the random source eventually delivering an
\* index not drawn before.
PathFairSpec ==
    /\ PathSpec
    /\ WF_vars(ChooseLength)
    /\ WF_vars(DrawIndex)
    /\ WF_vars(ReturnPath)

\* The assembler fed with arbitrary chunks while time passes.
TtlSpec == Init /\ [][TtlNext]_vars /\ WF_vars(ChunkElapse)

\* The assembler fed with the chunks of split messages.
SplitSpec == InitSplit /\ [][SplitNext]_vars

\* A relay message passed from each node to the next hop it was given, every node
\* that is handed the message processing it.
RouteSpec == InitRoute /\ [][RouteNext]_vars /\ WF_vars(HandToNextHop)

\* Paths built with a path builder or from the relay registry, the random source
\* eventually delivering an index not drawn before.
BuildFairSpec ==
    /\ InitBuild
    /\ [][BuildNext]_vars
    /\ WF_vars(ChooseLength)
    /\ WF_vars(DrawIndex)
    /\ WF_vars(ReturnPath)
    /\ WF_vars(RelayDrawIndex)
    /\ WF_vars(ReturnRelayPath)

\* Goroutines calling the assembler and the node's peer table at any time.
AccessSpec == Init /\ [][AccessNext]_vars

\* A mix network with nodes added and removed.
NetworkSpec == Init /\ [][NetworkNext]_vars

(***************************************************************************)
(* Claims about the mix node                                               *)
(***************************************************************************)
\* The packets of the extracted batch not yet pushed to the processing channel.
Unsent == SubSeq(shuffled, sendIdx + 1, Len(shuffled))

\* The packets sent on the output channel so far.
Emitted == Range(outputCh) \cup consumed

\* Nothing is on its way to the output channel.
Drained ==
    /\ packetQueue = <<>>
    /\ Unsent = <<>>
    /\ processingCh = <<>>
    /\ procPkt = NoPacket

\* In how many places packet p is.
PlaceCount(p) ==
    Occurrences(packetQueue, p) + Occurrences(Unsent, p) + Occurrences(processingCh, p)
        + (IF procPkt = p THEN 1 ELSE 0) + Occurrences(outputCh, p)
        + (IF p \in consumed THEN 1 ELSE 0)

\* C1: while the node has not been stopped, every accepted packet is in exactly one
\* place (input queue, extracted batch, processing channel, delayer, output channel,
\* read by the consumer) and no other packet is anywhere; so the packets emitted are
\* among the accepted ones, and are all of them once the node has drained.
C1_PacketConservation ==
    ~stopped =>
        /\ \A p \in Packets : PlaceCount(p) = (IF p \in accepted THEN 1 ELSE 0)
        /\ Emitted \subseteq accepted
        /\ (started /\ Drained => Emitted = accepted)

\* Every offered packet was accepted, went through the node and was read.
C1_Witness ==
    /\ ~stopped
    /\ accepted = Packets
    /\ consumed = Packets

\* C2: when the node is started and its output is read, every accepted packet is
\* eventually sent on the output channel, unless the node is stopped.
C2_EventuallyEmitted ==
    \A p \in Packets : (started /\ p \in accepted) ~> (stopped \/ p \in Emitted)

\* A packet accepted while the output channel was full and the delayer held another
\* one has been emitted.
C2_Witness ==
    /\ started
    /\ ~stopped
    /\ Cardinality(consumed) >= 2
    /\ MaxPackets \in Range(outputCh)

\* C3: a packet enters the output channel only from the delayer, which took it from
\* the processing channel, sampled a delay in [minDelay, maxDelay] for it and has
\* held it for at least that delay.
C3_EmittedAfterDelay ==
    [][Len(outputCh') > Len(outputCh) =>
          /\ procPC = "sleep"
          /\ procPkt # NoPacket
          /\ outputCh' = Append(outputCh, procPkt)
          /\ minDelay <= procDelay
          /\ procDelay <= maxDelay
          /\ slept >= procDelay]_vars

\* The delayer has waited out a delay above the minimum and can emit.
C3_Witness ==
    /\ procPC = "sleep"
    /\ procDelay > minDelay
    /\ slept >= procDelay
    /\ sleepLeft = 0
    /\ Len(outputCh) < maxQueueSize

\* C4: AddPacket returns the queue-full error exactly when the queue already holds
\* maxQueueSize packets, and then leaves the queue unchanged; otherwise it appends
\* the packet at the tail. The queue never holds more than maxQueueSize packets.
C4_AddPacketBounded ==
    /\ Len(packetQueue) <= maxQueueSize
    /\ [][/\ Len(packetQueue') <= maxQueueSize
          /\ offered' # offered =>
                IF Len(packetQueue) >= maxQueueSize
                THEN /\ ret'.err = "queue is full"
                     /\ packetQueue' = packetQueue
                     /\ accepted' = accepted
                ELSE /\ ret'.err = "nil"
                     /\ packetQueue' = Append(packetQueue, ret'.pkt)
                     /\ accepted' = accepted \cup {ret'.pkt}]_vars

\* AddPacket was refused on a full queue.
C4_Witness ==
    /\ ret.err = "queue is full"
    /\ Len(packetQueue) = maxQueueSize

\* C5: once Stop has been called on a started node, batchLoop and processLoop both
\* terminate.
C5_StopTerminatesBoth ==
    (started /\ stopped) ~> (batchPC = "done" /\ procPC = "done")

\* The packets of s are in arrival order (packet k is the k-th offered).
InArrivalOrder(s) == \A i, j \in 1..Len(s) : i < j => s[i] < s[j]

\* C6: for the batch the next tick extracts, the orders a successful shuffleBatch can
\* return are exactly the permutations of the batch, what processBatch pushes is one
\* of them also when shuffleBatch fails, and shuffleBatch leaves the caller's slice
\* as it was; the batch being pushed is a permutation of the batch extracted, which
\* is still in arrival order.
C6_ShuffleAllPermutations ==
    /\ Len(packetQueue) > 0 =>
        LET b == BatchOf(packetQueue, BatchLen(packetQueue)) IN
            /\ {r.shuffled : r \in {x \in shuffleBatch(b) : ~x.err}} = Perms(Range(b))
            /\ \A r \in shuffleBatch(b) :
                /\ ShuffledOrBatch(r) \in Perms(Range(b))
                /\ r.batch = b
    /\ batchPC = "send" =>
        /\ shuffled \in Perms(Range(batch))
        /\ InArrivalOrder(batch)

\* A batch of several packets is about to be pushed in another order than it arrived.
C6_Witness ==
    /\ batchPC = "send"
    /\ sendIdx = 0
    /\ Len(batch) >= 2
    /\ shuffled # batch

\* C7: while the node has not been stopped, every packet sent on the output channel
\* was accepted at least minDelay and at most maxDelay + TickPeriod + Slack before.
C7_LatencyBounds ==
    ~stopped =>
        \A i \in 1..Len(outputCh) :
            /\ age[outputCh[i]] >= minDelay
            /\ age[outputCh[i]] <= maxDelay + TickPeriod + Slack

\* The lower bound of C7 alone.
LatencyAtLeastMinDelay ==
    \A i \in 1..Len(outputCh) : age[outputCh[i]] >= minDelay

(***************************************************************************)
(* Claims about the chunk assembler                                        *)
(***************************************************************************)
\* The completeness the specification defines: for some N > 0 the stored sequence
\* numbers are exactly 0..N-1 and every stored chunk reports total = N.
CompleteBySpec(m, id) ==
    /\ id \in DOMAIN m
    /\ \E N \in 1..MaxTotal :
        /\ DOMAIN m[id] = 0..(N - 1)
        /\ \A s \in DOMAIN m[id] : m[id][s].Total = N

\* C8: in every assembler state reached by AddChunk calls, IsComplete(id) answers
\* true exactly when the message is complete as the specification defines it.
C8_IsCompleteIffAllChunks ==
    /\ \A id \in MessageIDs \cup {""} :
        IsCompleteResults(chunks, id) = {CompleteBySpec(chunks, id)}
    /\ cret.op = "IsComplete" => cret.ok = CompleteBySpec(chunks, cret.id)

\* The half of C8 the code keeps: a message complete by the specification is
\* reported complete.
CompleteIsReported ==
    \A id \in MessageIDs \cup {""} :
        CompleteBySpec(chunks, id) => IsCompleteResults(chunks, id) = {TRUE}

\* Every chunk SplitMessage returned for message id is in the assembler.
AllDelivered(id) ==
    /\ outbox[id].err = NilErr
    /\ Len(outbox[id].chunks) > 0
    /\ \A k \in 1..Len(outbox[id].chunks) : outbox[id].chunks[k] \in delivered

\* Splitting message id and adding all its chunks gives back its data.
RoundTrip(id) ==
    /\ outbox[id] # NotSplit => outbox[id].err = NilErr
    /\ AllDelivered(id) =>
        /\ IsCompleteResults(chunks, id) = {TRUE}
        /\ \A r \in AssembleResults(chunks, id) :
            /\ r.err = NilErr
            /\ r.data = msgs[id].data
    /\ (cret.op = "Assemble" /\ cret.id = id /\ cret.err = NilErr) =>
        cret.data = msgs[id].data

\* C9: for every non-empty data and every chunk size > 0, SplitMessage succeeds, and
\* once all its chunks are added IsComplete is true and Assemble returns the data.
C9_SplitAssembleRoundTrip ==
    \A id \in MessageIDs :
        (Len(msgs[id].data) > 0 /\ msgs[id].size > 0) => RoundTrip(id)

\* C9 for the chunk sizes whose sum with the data length stays within Go's int.
RoundTripWithoutOverflow ==
    \A id \in MessageIDs :
        (/\ Len(msgs[id].data) > 0
         /\ msgs[id].size > 0
         /\ Len(msgs[id].data) + msgs[id].size - 1 <= MaxInt) => RoundTrip(id)

\* The assembler state a set of chunks determines, whatever the order they came in.
MapOfSet(S) ==
    [id \in {c.MessageID : c \in S} |->
        [seq \in {c.Seq : c \in {x \in S : x.MessageID = id}} |->
            CHOOSE c \in S : c.MessageID = id /\ c.Seq = seq]]

\* C10: the assembler's state is determined by the set of chunks of the split
\* messages added so far, in whatever order and interleaving they were added, and
\* Assemble has one result in that state.
C10_OrderIndependent ==
    /\ chunks = MapOfSet(delivered)
    /\ \A id \in MessageIDs : Cardinality(AssembleResults(chunks, id)) = 1

\* Chunks of both messages are stored, and of one message a later chunk arrived
\* before its first.
C10_Witness ==
    /\ "m1" \in DOMAIN chunks
    /\ "m2" \in DOMAIN chunks
    /\ 0 \notin DOMAIN chunks["m1"]
    /\ 2 \in DOMAIN chunks["m1"]

AnyID == MessageIDs \cup {""}

\* The chunks AddChunk accepts.
ValidChunkInputs == {x \in ChunkInputs : Validate(x) = NilErr}

\* The chunks stored for message id (none when it has no entry).
StoredFor(m, id) == IF id \in DOMAIN m THEN m[id] ELSE <<>>

\* C11: Assemble(id) on a message that is not complete returns the Incomplete error
\* and leaves every stored chunk of every message unchanged.
C11_IncompleteAssembleFails ==
    [][\A id \in AnyID :
        (Assemble(id) /\ ~CompleteBySpec(chunks, id)) =>
            (cret'.err = IncompleteErr /\ chunks' = chunks)]_vars

\* C11 when IsComplete answers false, as it does for every unknown ID and for every
\* message whose stored chunks agree on the total and are not all there.
AssembleFailsWhenNotReportedComplete ==
    [][\A id \in AnyID :
        (Assemble(id) /\ IsCompleteResults(chunks, id) = {FALSE}) =>
            (cret'.err = IncompleteErr /\ chunks' = chunks)]_vars

\* C12: a successful Assemble(id) removes the entry of id and nothing else, after
\* which IsComplete(id) is false and Assemble(id) fails with Incomplete; AddChunk
\* for one message changes neither what is stored nor what is reported complete
\* for any other message (a step after which the last call is an AddChunk is an
\* AddChunk for message cret'.id or changes no chunk).
C12_FrameOfAssembleAndAddChunk ==
    [][/\ \A id \in AnyID :
            (Assemble(id) /\ cret'.err = NilErr) =>
                /\ id \in DOMAIN chunks
                /\ DOMAIN chunks' = DOMAIN chunks \ {id}
                /\ \A o \in DOMAIN chunks' : chunks'[o] = chunks[o]
                /\ IsCompleteResults(chunks', id) = {FALSE}
                /\ \A r \in AssembleResults(chunks', id) :
                    r.err = IncompleteErr /\ r.chunks = chunks'
       /\ cret'.op = "AddChunk" =>
                \A o \in AnyID \ {cret'.id} :
                    /\ o \in DOMAIN chunks' <=> o \in DOMAIN chunks
                    /\ StoredFor(chunks', o) = StoredFor(chunks, o)
                    /\ IsCompleteResults(chunks', o) = IsCompleteResults(chunks, o)]_vars

\* Assemble has just succeeded for one message while chunks of another are stored.
C12_Witness ==
    /\ cret.op = "Assemble"
    /\ cret.err = NilErr
    /\ cret.id = "m1"
    /\ "m2" \in DOMAIN chunks
    /\ "m1" \notin DOMAIN chunks

\* The chunks of ChunkInputs that AddChunk accepts under the key of chunk c.
ValidSameKey(c) ==
    {x \in [MessageID : {c.MessageID}, Seq : {c.Seq}, Total : 0..MaxTotal, Data : ChunkData] :
        Validate(x) = NilErr}

\* C13: in every reachable assembler state, AddChunk of a valid chunk returns no
\* error, stores the chunk under its (messageID, seq) in place of any chunk added
\* there before, adds a key only when none was there and keeps every other chunk;
\* adding it a second time changes nothing; AddChunk of a chunk failing validation
\* returns an error and changes nothing.
C13_AddChunkIdempotentOverwrite ==
    \A c \in ChunkInputs :
        LET r == AddChunkResult(chunks, c)
            before == StoredFor(chunks, c.MessageID)
        IN IF c \in ValidChunkInputs
           THEN /\ r.err = NilErr
                /\ r.chunks[c.MessageID][c.Seq] = c
                /\ DOMAIN r.chunks = DOMAIN chunks \cup {c.MessageID}
                /\ DOMAIN r.chunks[c.MessageID] = DOMAIN before \cup {c.Seq}
                /\ \A q \in DOMAIN before \ {c.Seq} : r.chunks[c.MessageID][q] = before[q]
                /\ \A o \in DOMAIN chunks \ {c.MessageID} : r.chunks[o] = chunks[o]
                /\ AddChunkResult(r.chunks, c) = r
                /\ \A d \in ValidSameKey(c) :
                    AddChunkResult(AddChunkResult(chunks, d).chunks, c) = r
           ELSE /\ r.err # NilErr
                /\ r.chunks = chunks

\* A valid chunk has been stored under ("m1", 0) and the last AddChunk was rejected,
\* leaving it there.
C13_Witness ==
    /\ cret.op = "AddChunk"
    /\ cret.err # NilErr
    /\ cret.id = "m1"
    /\ "m1" \in DOMAIN chunks
    /\ 0 \in DOMAIN chunks["m1"]
    /\ chunks["m1"][0].Data = <<2>>

\* A message that is stored and not complete.
Partial(id) == id \in DOMAIN chunks /\ ~CompleteBySpec(chunks, id)

\* C14: a partial message held longer than the TTL is eventually purged from the
\* assembler (or completed).
C14_PartialPurgedAfterTTL ==
    \A id \in MessageIDs : (Partial(id) /\ held[id] > TTL) ~> ~Partial(id)

\* ceil(n / k) for k > 0, in unbounded integers.
Ceil(n, k) == (n + k - 1) \div k

\* The concatenation of the data of chunks from..Len(cs).
RECURSIVE ConcatData(_, _)
ConcatData(cs, from) ==
    IF from > Len(cs) THEN <<>> ELSE cs[from].Data \o ConcatData(cs, from + 1)

\* What the specification wants SplitMessage(id, data, size) to return.
SplitAsSpecified(id, data, size, r) ==
    IF size <= 0 \/ Len(data) = 0
    THEN r.err \notin {NilErr, NilDerefPanic, MakeSlicePanic} /\ r.chunks = <<>>
    ELSE LET N == Ceil(Len(data), size) IN
        /\ r.err = NilErr
        /\ Len(r.chunks) = N
        /\ \A k \in 1..N :
            /\ r.chunks[k].MessageID = id
            /\ r.chunks[k].Seq = k - 1
            /\ r.chunks[k].Total = N
            /\ k < N => Len(r.chunks[k].Data) = size
            /\ k = N => Len(r.chunks[k].Data) \in 1..size
        /\ ConcatData(r.chunks, 1) = data

\* C15: SplitMessage on non-empty data with chunkSize > 0 returns ceil(|D| / chunkSize)
\* chunks, chunk i with seq i and that total, all of chunkSize bytes but the last of
\* 1..chunkSize bytes, whose data concatenates to D; with chunkSize <= 0 or empty
\* data it returns an error and no chunks.
C15_SplitMessageShape ==
    \A id \in MessageIDs :
        outbox[id] # NotSplit => SplitAsSpecified(id, msgs[id].data, msgs[id].size, outbox[id])

\* C15 for the chunk sizes whose sum with the data length stays within Go's int.
SplitShapeWithoutOverflow ==
    \A id \in MessageIDs :
        (outbox[id] # NotSplit /\ Len(msgs[id].data) + msgs[id].size - 1 <= MaxInt) =>
            SplitAsSpecified(id, msgs[id].data, msgs[id].size, outbox[id])

\* The chunks the specification wants Validate to accept.
Acceptable(c) ==
    /\ c.MessageID # ""
    /\ c.Total > 0
    /\ 0 <= c.Seq
    /\ c.Seq < c.Total
    /\ Len(c.Data) > 0

\* C16: Validate returns no error exactly for the chunks with a non-empty message
\* ID, total > 0, 0 <= seq < total and non-empty data, so every chunk AddChunk has
\* stored is such a chunk, and a rejected chunk got one of Validate's errors.
C16_ValidateAcceptsExactly ==
    /\ \A c \in ChunkInputs : (Validate(c) = NilErr) <=> Acceptable(c)
    /\ \A id \in DOMAIN chunks : \A q \in DOMAIN chunks[id] : Acceptable(chunks[id][q])
    /\ (cret.op = "AddChunk" /\ cret.err # NilErr) =>
        cret.err \in {"message ID cannot be empty", "invalid sequence number",
                      "total chunks must be positive", "chunk data cannot be empty"}

\* AddChunk has just rejected a chunk for its sequence number while an accepted
\* chunk is stored.
C16_Witness ==
    /\ cret.op = "AddChunk"
    /\ cret.err = "invalid sequence number"
    /\ chunks # <<>>

(***************************************************************************)
(* Claims about the path builder                                           *)
(***************************************************************************)
\* The number of available nodes that are not excluded.
Remaining(nodes, E) == Cardinality({i \in 1..Len(nodes) : nodes[i] \notin E})

\* C17: with a duplicate-free list of available nodes, every path BuildRandomPath or
\* BuildPathExcluding(E) returns holds available nodes only, none of E and none
\* twice, and its length is in [minHops, min(maxHops, |A \ E|)].
C17_PathWellFormed ==
    (pret.op # "none" /\ pret.err = NilErr /\ DupFree(pb.availableNodes)) =>
        /\ Range(pret.path) \subseteq Range(pb.availableNodes)
        /\ Range(pret.path) \cap pret.exclude = {}
        /\ DupFree(pret.path)
        /\ Len(pret.path) >= pb.minPathLength
        /\ Len(pret.path) <= pb.maxPathLength
        /\ Len(pret.path) <= Cardinality(Range(pb.availableNodes) \ pret.exclude)

\* BuildPathExcluding returned a path of two nodes, cut down from maxHops = 3 because
\* one of three available nodes was excluded.
C17_Witness ==
    /\ pret.op = "BuildPathExcluding"
    /\ pret.err = NilErr
    /\ DupFree(pb.availableNodes)
    /\ Len(pb.availableNodes) = 3
    /\ pb.maxPathLength = 3
    /\ Cardinality(pret.exclude) = 1
    /\ Len(pret.path) = 2

\* What BuildPathExcluding may return for the exclusion set it was called with.
ExcludingResultOK ==
    pret.op = "BuildPathExcluding" =>
        IF Remaining(pb.availableNodes, pret.exclude) < pb.minPathLength
        THEN pret.err = ExclusionErr /\ pret.path = <<>>
        ELSE \/ pret.err = NilErr /\ pret.path # <<>>
             \/ pret.err = RandErr /\ pret.path = <<>>

\* C18: BuildPathExcluding(E) returns the insufficient-nodes error and no path when
\* fewer than minHops available nodes are outside E; otherwise it returns, and what
\* it returns is a path unless the random source failed.
C18_ExcludingFailsIffTooFew ==
    /\ []ExcludingResultOK
    /\ (build.op = "BuildPathExcluding" /\ build.pc # "idle") ~>
            (build.pc = "idle" /\ pret.op = "BuildPathExcluding")

\* BuildPathExcluding failed because the exclusion left fewer than minHops of the
\* available nodes.
C18_Witness ==
    /\ pret.op = "BuildPathExcluding"
    /\ pret.err = ExclusionErr
    /\ Len(pb.availableNodes) = 3
    /\ Remaining(pb.availableNodes, pret.exclude) = 1
    /\ pb.minPathLength = 2

(***************************************************************************)
(* Claims about the relay network                                          *)
(***************************************************************************)
\* The registered relays last seen within the freshness window.
LiveRelays(nodes) ==
    {id \in DOMAIN nodes : nodes[id].IsRelay /\ nodes[id].since < FreshWindow}

\* C19: a BuildRelayPath(minHops, maxHops, E) call with 1 <= minHops <= maxHops, made
\* in any state Register/Unregister/UpdateNodeStatus/CleanupStaleNodes calls and time
\* lead to, fails with an error when fewer than minHops live relays outside E are
\* registered, and a path it returns holds only such relays, none twice, and has
\* length in [minHops, maxHops].
C19_RelayPathWellFormed ==
    [][(rret' # rret /\ 1 <= rret'.minHops /\ rret'.minHops <= rret'.maxHops) =>
        LET live == LiveRelays(relayNodes) \ rret'.exclude IN
            /\ Cardinality(live) < rret'.minHops =>
                (rret'.err = NotEnoughRelaysErr /\ rret'.path = <<>>)
            /\ rret'.err = NilErr =>
                /\ DupFree(rret'.path)
                /\ Range(rret'.path) \subseteq live
                /\ Len(rret'.path) >= rret'.minHops
                /\ Len(rret'.path) <= rret'.maxHops]_vars

\* BuildRelayPath returned a path of two relays while a third registered relay was
\* no longer fresh.
C19_Witness ==
    /\ rret.err = NilErr
    /\ rret.minHops = 2
    /\ rret.maxHops = 2
    /\ Len(rret.path) = 2
    /\ \E id \in DOMAIN relayNodes : relayNodes[id].since >= FreshWindow /\ id \notin rret.exclude

\* The last ProcessRelayMessage call dropped the message with the hop-limit error.
DroppedForHopLimit ==
    /\ pmret.err = HopLimitErr
    /\ pmret.out = NoMsg
    /\ ~pmret.final
    /\ rmsg = pmret.in

\* C20: a relay message with HopsLeft <= 0 is dropped with the hop-limit error at
\* every node that processes it: it is neither forwarded nor delivered.
C20_HopLimitAlwaysDrops ==
    (pmret.err # "not called" /\ pmret.in.HopsLeft <= 0) => DroppedForHopLimit

\* C20 as the code has it: a relay message with HopsLeft <= 0 is dropped with the
\* hop-limit error at every node but its final destination, where it is delivered
\* unchanged.
C20_HopLimitDropsAtRelays ==
    (pmret.err # "not called" /\ pmret.in.HopsLeft <= 0) =>
        IF pmret.in.FinalDest = pmret.node
        THEN pmret.err = NilErr /\ pmret.final /\ pmret.out = pmret.in /\ rmsg = pmret.in
        ELSE DroppedForHopLimit

\* A message with no hop left has been dropped at a relay on its path.
C20_Witness ==
    /\ pmret.in.HopsLeft = 0
    /\ pmret.node \in Range(pmret.in.Path)
    /\ pmret.in.FinalDest = "dest"
    /\ DroppedForHopLimit

\* The last ProcessRelayMessage call returned the message for forwarding.
Forwarded ==
    /\ pmret.err = NilErr
    /\ ~pmret.final

\* The two fields a forwarding call may change, blanked.
OtherFields(msg) == [msg EXCEPT !.HopsLeft = 0, !.NextHop = ""]

\* The message is one CreateRelayMessage returns.
Created(msg) ==
    \E finalDest \in HopNodes, path \in UNION {[1..n -> RelayIDs] : n \in 1..MaxPathLen} :
        msg = CreateRelayMessage(finalDest, msg.Payload, path).msg

\* C21: a ProcessRelayMessage call that returns the message for forwarding has taken
\* exactly one from HopsLeft, leaves HopsLeft >= 0 and changes no field but HopsLeft
\* and NextHop; a call that delivers or fails with the hop-limit error changes no
\* field; a message made by CreateRelayMessage over a path of length k is forwarded
\* at most k times.
C21_ForwardingFrame ==
    /\ pmret.err # "not called" =>
        IF Forwarded
        THEN /\ pmret.out = rmsg
             /\ rmsg.HopsLeft = pmret.in.HopsLeft - 1
             /\ rmsg.HopsLeft >= 0
             /\ OtherFields(rmsg) = OtherFields(pmret.in)
        ELSE /\ rmsg = pmret.in
             /\ pmret.final => pmret.out = pmret.in
             /\ ~pmret.final => pmret.err = HopLimitErr /\ pmret.out = NoMsg
    /\ Created(pmret.first) => pmret.forwards <= Len(pmret.first.Path)

\* A message created over a path of two relays has been forwarded twice, each call
\* changing its next hop.
C21_Witness ==
    /\ Created(pmret.first)
    /\ Len(pmret.first.Path) = 2
    /\ pmret.forwards = 2
    /\ Forwarded
    /\ rmsg.HopsLeft = 0
    /\ rmsg.NextHop # pmret.first.NextHop

(***************************************************************************)
(* Claims about the packet envelope and the cryptographic layers           *)
(***************************************************************************)
\* The plaintexts peeling the payload with some node key gives.
PeeledFrom(payload) ==
    {PeelOnion(Deserialize(payload), key).plain :
        key \in {k \in SymKeys : PeelOnion(Deserialize(payload), k).err = NilErr}}

\* C22: a node delivers a received message locally only after verifying the signature
\* of its envelope, and forwards it only with its own onion layer peeled off.
C22_VerifiedBeforeDeliveryPeeledBeforeForwarding ==
    /\ (pmret.err = NilErr /\ pmret.final) => "Packet.Verify" \in ProcessRelayMessageCalls
    /\ Forwarded => pmret.out.Payload \in PeeledFrom(pmret.in.Payload)

\* C23: IsExpired(maxAge) is true exactly when the wall clock minus the packet's
\* timestamp exceeds maxAge, whatever the signature of the packet.
C23_ExpiredIffOlderThanMaxAge ==
    kret.op = "IsExpired" =>
        /\ kret.expired <=> (kret.at - packet.Timestamp > kret.maxAge)
        /\ \A priv \in PrivateKeys :
            IsExpired(Sign(packet, priv).pkt, kret.maxAge, kret.at) = kret.expired

\* The same for timestamps time.Unix can hold and ages a Duration can hold.
ExpiredIffOlderWithoutOverflow ==
    (/\ kret.op = "IsExpired"
     /\ packet.Timestamp + UnixToInternal < SecLimit
     /\ kret.at - packet.Timestamp \in Durations) =>
        (kret.expired <=> (kret.at - packet.Timestamp > kret.maxAge))

\* A signed packet more than maxAge old still verifies and is reported expired.
ExpiredButVerified ==
    /\ kret.op = "IsExpired"
    /\ kret.expired
    /\ kret.at = packet.Timestamp + kret.maxAge + 1
    /\ signedAs # NotSigned
    /\ Verify(packet, PublicKey(signedAs.key)) = NilErr

\* The packet differs from the signed one in a signable field only.
ChangedAfterSigning ==
    /\ signedAs # NotSigned
    /\ packet # signedAs.pkt
    /\ packet.Signature = signedAs.pkt.Signature

\* C24: Sign followed by Verify with the matching public key succeeds, also when the
\* packet was signed before; with any signable field changed after signing Verify
\* fails; Verify on a packet with an empty signature fails as unsigned.
C24_SignThenVerify ==
    /\ (kret.op = "Sign" /\ kret.err = NilErr) => Verify(packet, PublicKey(kret.key)) = NilErr
    /\ ChangedAfterSigning => \A pub \in PublicKeys : Verify(packet, pub) = BadSignatureErr
    /\ packet.Signature = NoSignature => \A pub \in PublicKeys : Verify(packet, pub) = UnsignedErr

\* The same for packets whose strings are valid UTF-8.
ValidUTF8(str) == \A i \in 1..Len(str) : str[i] \notin InvalidBytes
SignThenVerifyOnValidText ==
    /\ (kret.op = "Sign" /\ kret.err = NilErr) => Verify(packet, PublicKey(kret.key)) = NilErr
    /\ (ChangedAfterSigning /\ ValidUTF8(packet.Sender) /\ ValidUTF8(signedAs.pkt.Sender)) =>
        \A pub \in PublicKeys : Verify(packet, pub) = BadSignatureErr
    /\ packet.Signature = NoSignature => \A pub \in PublicKeys : Verify(packet, pub) = UnsignedErr

\* C25: on one session the chain key after k steps differs from the chain key after
\* j steps for all j # k, the initial one included, so no chain key is returned as a
\* message key twice.
C25_ChainKeysNeverRepeat ==
    \A side \in Peers : DupFree(chains[side]) /\ DupFree(issued[side])

\* The chain keys a session can hold: any secret of the model under any mask.
ChainKeyValues ==
    {KeyOf(X25519(priv, X25519Base(other)), mask) :
        priv \in Scalars, other \in Scalars, mask \in 0..255}

\* C26: the ratchet step is one-way: the chain key before the last step is not what a
\* known function makes of the current one, and another previous chain key would
\* have led to the same current one.
C26_RatchetStepOneWay ==
    \A side \in Peers :
        Len(chains[side]) >= 2 =>
            LET current == chains[side][Len(chains[side])]
                previous == chains[side][Len(chains[side]) - 1]
            IN /\ StepKey(current) # previous
               /\ \E other \in ChainKeyValues : other # previous /\ StepKey(other) = current

\* A has made its session from the public key B has published, B from the DHPublic
\* of A's session.
Established ==
    /\ sessions["A"] # NoSession
    /\ sessions["B"] # NoSession
    /\ sessions["A"].PeerPub = X25519Base(peerKey)
    /\ sessions["B"].PeerPub = sessions["A"].DHPublic

\* C27: when A makes a session from B's public key and B one from the DHPublic of A's
\* session, both hold the same RootKey and ChainKey, and the k-th key GetNextKey
\* returns is the same on both sides.
C27_BothSidesHoldSameKeys ==
    Established =>
        /\ sessions["A"].RootKey = sessions["B"].RootKey
        /\ chains["A"][1] = chains["B"][1]
        /\ \A k \in 1..Min(Len(issued["A"]), Len(issued["B"])) : issued["A"][k] = issued["B"][k]

\* The keys of the nodes on the path of the last sendOnion call.
PathKeys == [i \in 1..Len(sent.path) |-> Lookup(nodeKeys, sent.path[i])]

\* The raw message has been peeled with the keys of the first nodes of the path, in
\* the order of the path, and with no other key.
PeeledAlongPath ==
    /\ intact
    /\ Len(tried) \in 1..Len(sent.path)
    /\ tried = SubSeq(PathKeys, 1, Len(tried))

\* C28: a payload wrapped by sendOnion with the keys of a path of k nodes, the last
\* node's first, and peeled with these keys in the order of the path is recovered
\* exactly by the k-th peel; each peel before takes off one layer and leaves an onion
\* that is not the payload.
C28_PeelingAlongPathRecoversPayload ==
    PeeledAlongPath =>
        /\ oret.err = NilErr
        /\ Len(tried) = Len(sent.path) => oret.plain = sent.data
        /\ Len(tried) < Len(sent.path) =>
            /\ oret.plain # sent.data
            /\ Len(oret.plain) =
                  Len(sent.data) + (Len(sent.path) - Len(tried)) * (NonceSize + Overhead)

\* A payload of one byte sent over two nodes with different keys has been recovered.
C28_Witness ==
    /\ PeeledAlongPath
    /\ Len(sent.path) = 2
    /\ Len(tried) = 2
    /\ tried[1] # tried[2]
    /\ Len(sent.data) = 1
    /\ oret.plain = sent.data

\* The packet is one CreateOnionPacket returns for some plaintext and this key.
CreatedWith(payload, key) ==
    /\ Len(payload) >= NonceSize + Overhead
    /\ LET nonce == SubSeq(payload, 1, NonceSize)
           n == Len(payload) - NonceSize - Overhead
           plain == [i \in 1..n |-> DecryptByte(key, nonce, i, payload[NonceSize + i])]
       IN payload = nonce \o Seal(key, nonce, plain)

\* The packet with the bytes changed in transit as they were before.
Unaltered(payload) ==
    [i \in 1..Len(payload) |->
        IF DOMAIN payload[i] = {"flip"} THEN payload[i].flip ELSE payload[i]]

\* The last packet received was made with this key and a byte of it changed in transit.
ReceivedAltered(key) ==
    /\ oret.err # "not called"
    /\ oret.pkt # Unaltered(oret.pkt)
    /\ CreatedWith(Unaltered(oret.pkt), key)

\* C29: peeling a packet made by CreateOnionPacket with another 32-byte key than the
\* one it was made with fails with the authentication error and returns no
\* plaintext; so does peeling with any key a packet of which a byte was changed.
C29_WrongKeyOrAlteredFailsAuthentication ==
    /\ \A key \in SymKeys :
        (/\ oret.err # "not called"
         /\ CreatedWith(oret.pkt, key)
         /\ oret.key \in SymKeys \ {key}) => (oret.err = AuthErr /\ oret.plain = <<>>)
    /\ \A key \in SymKeys :
        (ReceivedAltered(key) /\ oret.key \in SymKeys) =>
            (oret.err = AuthErr /\ oret.plain = <<>>)

\* The outer layer of a two-layer onion has been peeled with the key of the inner one.
C29_Witness ==
    /\ oret.intact
    /\ Len(sent.path) = 2
    /\ Len(tried) = 1
    /\ oret.key = PathKeys[2]
    /\ CreatedWith(oret.pkt, PathKeys[1])
    /\ PathKeys[1] # PathKeys[2]
    /\ oret.err = AuthErr

\* C30: PeelOnion fails as malformed exactly when the packet is shorter than the
\* nonce and with the authentication error otherwise; whatever the packet and the
\* key, also the one looked up for an ID without key, it returns no other error.
C30_TwoFailureModes ==
    oret.err # "not called" =>
        /\ oret.err \in {NilErr, MalformedErr, AuthErr}
        /\ oret.err = MalformedErr <=> Len(oret.pkt) < NonceSize

\* C30 as the code has it: with a key that is not 32 bytes long PeelOnion fails with
\* the key-length error whatever the packet; with a 32-byte key it fails as malformed
\* exactly when the packet is shorter than the nonce, succeeds exactly on a packet
\* made with this key, and fails with the authentication error otherwise.
C30_ThreeFailureModes ==
    oret.err # "not called" =>
        IF KeyLen(oret.key) # KeySize
        THEN oret.err = BadKeyErr /\ oret.plain = <<>>
        ELSE /\ oret.err \in {NilErr, MalformedErr, AuthErr}
             /\ oret.err = MalformedErr <=> Len(oret.pkt) < NonceSize
             /\ oret.err = NilErr <=> CreatedWith(oret.pkt, oret.key)
             /\ oret.err # NilErr => oret.plain = <<>>

\* A packet of exactly the length of the nonce has failed authentication.
C30_Witness ==
    /\ oret.key \in SymKeys
    /\ Len(oret.pkt) = NonceSize
    /\ oret.err = AuthErr

(***************************************************************************)
(* Claims about concurrency, routing and the mix network                   *)
(***************************************************************************)
\* The goroutines inside a call of the given set.
Inside(ops) == {g \in Goroutines : calls[g] \in ops}

\* C31: no shared map is accessed without its mutex: no two goroutines are inside
\* AddChunk / IsComplete / Assemble calls on the assembler at the same time, and no
\* goroutine reads node.Peers in sendOnion while another is inside ConnectPeer.
C31_MapsAccessedUnderMutex ==
    /\ Cardinality(Inside(AssemblerCalls)) <= 1
    /\ Inside({"ConnectPeer"}) # {} => Inside({"sendOnion"}) = {}

\* The step is a batch tick: batchLoop takes the tick waiting in ticker.C and runs
\* processBatch.
TickStep ==
    /\ batchPC = "select"
    /\ tickPending
    /\ ~tickPending'
    /\ batchPC' # "done"

\* The step is an AddPacket call that returns nil.
AcceptStep ==
    /\ offered' = offered + 1
    /\ ret'.err = "nil"

\* C32: a batch tick on a non-empty queue extracts the first min(batchSize, queue
\* length) packets of the queue, in the order they were added, and leaves the others
\* in the queue in their order; a tick on an empty queue changes neither the queue nor
\* the batch former. A packet accepted while an extracted batch is being sent goes to
\* the end of the queue and leaves the batch alone, and no packet is ever in the
\* queue and the batch at once, or twice in either.
C32_TickTakesQueueHead ==
    [][/\ TickStep /\ packetQueue = <<>> =>
            UNCHANGED <<packetQueue, batch, shuffled, sendIdx, batchPC, processingCh>>
       /\ TickStep /\ packetQueue # <<>> =>
            LET n == Min(batchSize, Len(packetQueue)) IN
                /\ batch' = SubSeq(packetQueue, 1, n)
                /\ packetQueue' = SubSeq(packetQueue, n + 1, Len(packetQueue))
                /\ Len(batch') + Len(packetQueue') = Len(packetQueue)
                /\ \A i, j \in 1..Len(batch') : i < j => batch'[i] < batch'[j]
                /\ shuffled' \in Perms(Range(batch'))
       /\ AcceptStep =>
            /\ packetQueue' = Append(packetQueue, offered')
            /\ UNCHANGED <<batch, shuffled, sendIdx>>
       /\ DupFree(packetQueue' \o batch')
      ]_vars

\* A tick has just extracted a batch shorter than the queue, and a packet was
\* accepted while the batch was being sent.
C32_Witness ==
    /\ batchPC = "send"
    /\ Len(batch) = batchSize
    /\ Len(packetQueue) = 2
    /\ offered = MaxPackets
    /\ accepted = Packets

\* The batch former is blocked in its send: the processing channel is full.
SendBlocked ==
    /\ batchPC = "send"
    /\ Len(processingCh) = maxQueueSize

C34_AssembleNeverCrashes ==
    /\ \A id \in MessageIDs \cup {""} :
        \A r \in AssembleResults(chunks, id) : r.err \in {NilErr, IncompleteErr}
    /\ cret.op = "Assemble" => cret.err \in {NilErr, IncompleteErr}

\* The message was made for a duplicate-free path that does not contain its
\* destination.
Routable ==
    /\ DupFree(rmsg.Path)
    /\ rmsg.FinalDest \notin Range(rmsg.Path)

\* The last call processed the message at its destination and reported it final.
DeliveredAtDest ==
    /\ pmret.node = rmsg.FinalDest
    /\ pmret.final
    /\ pmret.err = NilErr

\* C35: a message made by CreateRelayMessage for a duplicate-free path without the
\* destination, handed to path[0] and then to each NextHop returned, is eventually
\* processed at the destination and reported final there, and is never dropped for
\* its hop limit.
C35_RoutedToDestination ==
    Routable => (<>DeliveredAtDest /\ [](pmret.err # HopLimitErr))

\* The node that follows node x in the path ("" when x is last or not on it).
Successor(path, x) ==
    IF \E i \in 1..(Len(path) - 1) : path[i] = x
    THEN path[(CHOOSE i \in 1..(Len(path) - 1) : path[i] = x) + 1]
    ELSE ""

\* C36: a call of ProcessRelayMessage at node X that returns the message for
\* forwarding has set its NextHop to the node following X in the path, never to X.
C36_NextHopIsSuccessor ==
    (Routable /\ Forwarded) =>
        /\ pmret.out.NextHop = Successor(pmret.out.Path, pmret.node)
        /\ pmret.out.NextHop # pmret.node

\* C37: after any AddNode and RemoveNode calls, a call that failed (ID already
\* present, ID not present) left the network as it was, every node in the network
\* has an open stop channel, so that its two goroutines run, and no call has closed
\* a stop channel that was closed already.
C37_NetworkNodesRunning ==
    /\ netret.err \in {NodeExistsErr, NodeNotFoundErr} => netNodes = netret.before
    /\ \A id \in DOMAIN netNodes : ~stopClosed[netNodes[id]]
    /\ netret.err # CloseClosedPanic

\* The packets that have entered the processing channel and have not been read from
\* the output, oldest first: output channel, delayer, processing channel.
Pipe == outputCh \o (IF procPkt = NoPacket THEN <<>> ELSE <<procPkt>>) \o processingCh

ReturnableLengths(minHops, maxHops, E) ==
    {Len(r.path) : r \in {x \in BuildRelayPath(relayNodes, minHops, maxHops, E) : x.err = NilErr}}

\* C39: whatever relays are registered and live, for 1 <= minHops <= maxHops and the
\* set A' of live relays outside E with |A'| >= minHops, BuildRelayPath can return a
\* path of every length from minHops to min(maxHops, |A'|).
C39_EveryLengthInRange ==
    \A minHops \in 1..MaxRelayHops, maxHops \in 1..MaxRelayHops, E \in SUBSET RelayIDs :
        LET n == Cardinality(LiveRelays(relayNodes) \ E) IN
            (minHops <= maxHops /\ n >= minHops) =>
                \A l \in minHops..Min(maxHops, n) : l \in ReturnableLengths(minHops, maxHops, E)

\* A selection loop of BuildRandomPath or BuildRelayPath is running.
InLoop == build.pc \in {"loop", "relay"}

\* C40: in BuildRandomPath and in BuildRelayPath the path length is at most the
\* number of candidate nodes, so an index not used before is left as long as nodes
\* are missing; a loop that ends by itself has selected exactly that many nodes; and
\* under a random source that eventually delivers an unused index every call returns.
C40_PathBuildingTerminates ==
    /\ [](InLoop => build.pathLength <= Len(build.nodes))
    /\ []((InLoop /\ Len(build.selectedNodes) < build.pathLength) =>
            FreshIndices(Len(build.nodes), build.usedIndices) # {})
    /\ [][(InLoop /\ build'.pc = "idle" /\ pret'.err # RandErr /\ ~RelayCrashed') =>
            Len(build.selectedNodes) = build.pathLength]_vars
    /\ (build.pc # "idle") ~> (build.pc = "idle")

\* BuildRelayPath has returned a path through every candidate, each index drawn once.
C40_Witness ==
    /\ rret.err = NilErr
    /\ rret.exclude = {}
    /\ Len(rret.path) = Cardinality(RelayIDs)
    /\ rret.maxHops = Cardinality(RelayIDs)
====
